---- MODULE Spec2Model ----
(***************************************************************************)
(* Model of the track engine of kajgps (src/kajgps.py): trackpoint         *)
(* cleaning, segment detection, splitting, activity classification and     *)
(* path compression, as run by Track.__init__.                             *)
(*                                                                         *)
(* Numbers.  Python floats are held as exact integers or fractions:        *)
(*   - lat/lon are in units of one metre of arc on a locally flat earth,   *)
(*     so geo.distance (haversine, km) is the euclidean distance, exact    *)
(*     along a meridian or a parallel and rounded down to a whole metre    *)
(*     otherwise; all distances are held in metres (km * 1000);            *)
(*   - timestamps are seconds since 2014-07-01 00:00:00;                   *)
(*   - a speed (km/h) is a fraction [num, den];                            *)
(*   - the compression tolerance c_t is held in units of 10^-5 m.          *)
(* Strings that the code compares, splits or parses are sequences of       *)
(* ASCII codes.                                                            *)
(***************************************************************************)
EXTENDS Integers, Sequences, FiniteSets, TLC

VARIABLES
    pc,                 \* position inside Track.__init__ / the call under study
    trackpoints,        \* Track.trackpoints
    activity_id,        \* Track.activity_id
    segments,           \* Track.segments
    next_id,            \* object identity given to the next Segment
    userbug,            \* the diagnostics list (lib.Userbug)
    i_tp,               \* _suggest_segments: index of the next trackpoint
    mode,               \* _suggest_segments: detector mode
    distance_list,      \* _suggest_segments: the rolling buffer
    dist_from_start,    \* _suggest_segments: cumulative distance
    i_segment_first_tp, \* _suggest_segments: start index of the open segment
    break_tp,           \* _suggest_segments: trackpoint of the last break
    net_dist,           \* Track.net_dist
    net_duration_s,     \* Track.net_duration_s
    compressed,         \* Track.compressed
    zipped,             \* Track.zipped
    activities,         \* the table _activities
    time_metadata,      \* the table _time_metadata
    forced_breaks,      \* the table _forced_breaks
    seg_dict,           \* the dictionary handed to Segment.guess_activity
    infile,             \* the trackpoints recorded in the trace file
    call,               \* arguments and outcome of a method called on the Track
    frames              \* the activations of _compress_section under way

vars == <<pc, trackpoints, activity_id, segments, next_id, userbug, i_tp, mode,
          distance_list, dist_from_start, i_segment_first_tp, break_tp,
          net_dist, net_duration_s, compressed, zipped, activities,
          time_metadata, forced_breaks, seg_dict, infile, call,
          frames>>

None == "None"
\* previous_segment / next_segment of a segment without neighbour
NoSegment == 0

----------------------------------------------------------------------------
(* Strings as sequences of ASCII codes.                                    *)

Minus == 45
Colon == 58
Zero == 48
LetterM == 109
LetterS == 115

IsDigit(c) == c >= Zero /\ c <= Zero + 9

\* Python's < on str: lexicographic, a proper prefix is smaller.
RECURSIVE StrLess(_, _)
StrLess(a, b) ==
    IF b = <<>> THEN FALSE
    ELSE IF a = <<>> THEN TRUE
    ELSE IF Head(a) < Head(b) THEN TRUE
    ELSE IF Head(a) > Head(b) THEN FALSE
    ELSE StrLess(Tail(a), Tail(b))

\* str.replace(ch, "") for a one-character ch.
StrRemove(s, ch) == SelectSeq(s, LAMBDA c : c # ch)

\* float()/int() of a string of decimal digits; the empty string of
\* int("0" + s) counts 0.
RECURSIVE ParseDigits(_, _)
ParseDigits(s, acc) ==
    IF s = <<>> THEN acc
    ELSE ParseDigits(Tail(s), acc * 10 + (Head(s) - Zero))

ParseNumber(s) == ParseDigits(s, 0)

\* str.split(sep) for a one-character sep: the list of parts.
RECURSIVE SplitFrom(_, _, _, _)
SplitFrom(s, sep, cur, parts) ==
    IF s = <<>> THEN Append(parts, cur)
    ELSE IF Head(s) = sep THEN SplitFrom(Tail(s), sep, <<>>, Append(parts, cur))
    ELSE SplitFrom(Tail(s), sep, Append(cur, Head(s)), parts)

Split(s, sep) == SplitFrom(s, sep, <<>>, <<>>)

TwoDigits(n) == <<Zero + ((n \div 10) % 10), Zero + (n % 10)>>

DaySeconds == 86400

----------------------------------------------------------------------------
(* Point and Trackpoint.                                                   *)

Abs(x) == IF x < 0 THEN -x ELSE x

\* Largest r with r * r <= n, by bisection on lo..hi.
RECURSIVE ISqrtIn(_, _, _)
ISqrtIn(n, lo, hi) ==
    IF lo >= hi THEN lo
    ELSE LET mid == (lo + hi + 1) \div 2
         IN  IF mid * mid <= n THEN ISqrtIn(n, mid, hi)
             ELSE ISqrtIn(n, lo, mid - 1)

\* geo.distance through Point.distance, in metres; the root lies between 0
\* and the sum of the two legs.
distance(p, q) ==
    IF p.lon = q.lon THEN Abs(p.lat - q.lat)
    ELSE IF p.lat = q.lat THEN Abs(p.lon - q.lon)
    ELSE ISqrtIn((p.lat - q.lat) * (p.lat - q.lat)
                 + (p.lon - q.lon) * (p.lon - q.lon),
                 0, Abs(p.lat - q.lat) + Abs(p.lon - q.lon))

is_same_lat_lon(p, q) == p.lat = q.lat /\ p.lon = q.lon

\* Trackpoint.seconds: abs(self.datetime - other.datetime).total_seconds()
seconds(p, q) == Abs(p.datetime - q.datetime)

\* Trackpoint.date_yymd: "2014-07-01" plus the day offset (fmt.yymd).
date_yymd(tp) ==
    <<50, 48, 49, 52, Minus, 48, 55, Minus>>
        \o TwoDigits(1 + (tp.datetime \div DaySeconds))

\* Trackpoint.time_hms: "14:15:16" (fmt.hms).
time_hms(tp) ==
    LET s == tp.datetime % DaySeconds
    IN  TwoDigits(s \div 3600) \o <<Colon>> \o TwoDigits((s \div 60) % 60)
            \o <<Colon>> \o TwoDigits(s % 60)

Trackpoint(lat, lon, datetime, alt) ==
    [lat |-> lat, lon |-> lon, alt |-> alt, datetime |-> datetime]

\* del list[i] (1-based i)
DelAt(s, i) == SubSeq(s, 1, i - 1) \o SubSeq(s, i + 1, Len(s))

----------------------------------------------------------------------------
(* Track._eliminate_still_points.  The loop runs i = element_count-1 .. 0  *)
(* (0-based) over a list it shrinks while walking; tps[i + 1] is the       *)
(* 0-based element i.                                                      *)

RECURSIVE still_points_loop(_, _, _, _)
still_points_loop(tps, i, element_count, recent_movement) ==
    IF i < 0 THEN tps
    ELSE IF i = element_count - 1 THEN
        IF is_same_lat_lon(tps[i + 1], tps[i])
        THEN still_points_loop(DelAt(tps, i + 1), i - 1, element_count,
                               recent_movement)
        ELSE still_points_loop(tps, i - 1, element_count, TRUE)
    ELSE IF i = 0 THEN
        IF Len(tps) > 1 /\ is_same_lat_lon(tps[1], tps[2])
        THEN still_points_loop(DelAt(tps, 1), i - 1, element_count,
                               recent_movement)
        ELSE still_points_loop(tps, i - 1, element_count, recent_movement)
    ELSE
        IF is_same_lat_lon(tps[i + 1], tps[i])
        THEN still_points_loop(IF ~recent_movement THEN DelAt(tps, i + 1)
                               ELSE tps,
                               i - 1, element_count, FALSE)
        ELSE still_points_loop(tps, i - 1, element_count, TRUE)

\* _eliminate_still_points with "recent_movement = True" before the loop.
eliminate_still_points_moved(tps) ==
    IF Len(tps) < 2 THEN tps
    ELSE still_points_loop(tps, Len(tps) - 1, Len(tps), TRUE)

\* _eliminate_still_points with "if element_count < 4: return".
eliminate_still_points_skipping(tps) ==
    IF Len(tps) < 4 THEN tps
    ELSE still_points_loop(tps, Len(tps) - 1, Len(tps), FALSE)

eliminate_still_points(tps) ==
    IF Len(tps) < 2 THEN tps
    ELSE still_points_loop(tps, Len(tps) - 1, Len(tps), FALSE)

----------------------------------------------------------------------------
(* The configuration tables.  A numeric cell is the string of the CSV       *)
(* file; ids are compared for equality only.                                *)

Str1(d) == <<Zero + d>>
Str2(n) == TwoDigits(n)
Str3(n) == <<Zero + (n \div 100)>> \o TwoDigits(n % 100)

Profile(order, min_speed, alt_slow, max_speed, alt_fast) ==
    [order |-> order, min_speed |-> min_speed, alt_slow |-> alt_slow,
     max_speed |-> max_speed, alt_fast |-> alt_fast,
     time_window_s |-> Str2(60) \o <<LetterS>>,
     window_dist_m |-> Str2(20) \o <<LetterM>>,
     final_hop_m |-> Str1(1) \o <<LetterM>>,
     minimum_break_s |-> Str3(120) \o <<LetterS>>]

\* A ge_activities.csv: one row per activity id; "hike" has its own setting
\* of minimum_break_s.
ActivityTable ==
    [a \in {"downhill", "walk", "run", "cycle", "car", "fly", "lift", "hike"}
        |->
        CASE a = "downhill" -> Profile(Str1(1), Str1(5), "lift", Str2(90), "car")
          [] a = "walk"     -> Profile(Str1(2), Str1(1), "walk", Str1(8), "cycle")
          [] a = "run"      -> Profile(Str1(3), Str1(8), "walk", Str2(25), "cycle")
          [] a = "cycle"    -> Profile(Str1(4), Str2(10), "walk", Str2(45), "car")
          [] a = "car"      -> Profile(Str1(5), Str2(30), "cycle", <<>>, "fly")
          [] a = "fly"      -> Profile(Str1(6), Str3(100), "car", <<>>, "fly")
          [] a = "lift"     -> Profile(Str1(7), <<>>, "walk", Str2(40), "car")
          [] a = "hike"     ->
                 [Profile(Str1(8), Str1(1), "walk", Str1(8), "cycle")
                     EXCEPT !.minimum_break_s = Str3(300) \o <<LetterS>>]]

\* Index a Python list (0-based) held as a TLA+ sequence.
At(s, i) == s[i + 1]

----------------------------------------------------------------------------
(* Track.distance_along_path: the value, and the warnings it records.      *)

\* list[i] as Python indexes it: a negative i counts from the end; the
\* position is outside 1..Len(s) where Python raises IndexError.
PyIndex(s, i) == IF i >= 0 THEN i + 1 ELSE Len(s) + i + 1

PyAt(s, i) == s[PyIndex(s, i)]

\* The loop over range(i_from + 1, i_to + 1); prev_tp is the point of the
\* round before.
RECURSIVE path_sum(_, _, _, _)
path_sum(tps, i, i_to, s) ==
    IF i > i_to THEN s
    ELSE path_sum(tps, i + 1, i_to,
                  s + distance(PyAt(tps, i), PyAt(tps, i - 1)))

distance_along_path(tps, i_from, i_to) ==
    LET cnt == Len(tps)
    IN  IF i_from > cnt - 1 THEN 0
        ELSE IF i_to > cnt - 1 THEN 0
        ELSE IF cnt = 0 THEN 0
        ELSE path_sum(tps, i_from + 1, i_to, 0)

distance_along_path_userbug(tps, i_from, i_to) ==
    LET cnt == Len(tps)
    IN  IF i_from > cnt - 1 THEN <<"distance_along_path: i_from">>
        ELSE IF i_to > cnt - 1 THEN <<"distance_along_path: i_to">>
        ELSE IF cnt = 0 THEN <<"distance_along_path: cnt = 0">>
        ELSE <<>>

\* "prev_tp = self.trackpoints[i_from]" raises IndexError when the three
\* tests let an i_from below -cnt through; the indices of the loop then lie
\* in i_from + 1 .. i_to, inside the list.
distance_along_path_raises(tps, i_from, i_to) ==
    /\ distance_along_path_userbug(tps, i_from, i_to) = <<>>
    /\ PyIndex(tps, i_from) \notin 1..Len(tps)

----------------------------------------------------------------------------
(* Segment.parse_segment_for_peaks over trackpoints i_first..i_last.       *)

Extreme(type, i, hm_up, hm_down, counter) ==
    [type |-> type, i_tp |-> i, hm_up |-> hm_up, hm_down |-> hm_down,
     counter |-> counter]

RECURSIVE peaks_loop(_, _, _, _)
peaks_loop(tps, i, i_last, st) ==
    IF i > i_last THEN st
    ELSE
      LET tp == At(tps, i)
          secs == seconds(tp, st.prev_tp)
          alt_diff == tp.alt - st.prev_alt
          going_up == alt_diff >= 0
          going_down == alt_diff <= 0
          bottom == going_up /\ ~st.prev_going_up /\ st.going_down_counter > 60
          peak == ~going_up /\ ~st.prev_going_down /\ st.going_up_counter > 60
          st2 == [prev_tp |-> tp, prev_alt |-> tp.alt,
                  prev_going_up |-> going_up, prev_going_down |-> going_down,
                  going_up_counter |->
                      IF going_up
                      THEN (IF st.prev_going_up
                            THEN st.going_up_counter + secs ELSE secs)
                      ELSE st.going_up_counter,
                  going_down_counter |->
                      IF going_up THEN st.going_down_counter
                      ELSE (IF st.prev_going_down
                            THEN st.going_down_counter + secs ELSE secs),
                  extremes |->
                      IF bottom
                      THEN Append(st.extremes,
                                  Extreme("bottom", i, st.hm_up, st.hm_down,
                                          st.going_down_counter))
                      ELSE IF peak
                      THEN Append(st.extremes,
                                  Extreme("peak", i, st.hm_up, st.hm_down,
                                          st.going_up_counter))
                      ELSE st.extremes,
                  hm_up |-> IF alt_diff > 0 THEN st.hm_up + alt_diff
                            ELSE st.hm_up,
                  hm_down |-> IF alt_diff > 0 THEN st.hm_down
                              ELSE st.hm_down + alt_diff]
      IN  peaks_loop(tps, i + 1, i_last, st2)

RECURSIVE collapse_extremes_first(_, _)
collapse_extremes_first(extremes, i) ==
    IF i < 1 THEN extremes
    ELSE IF At(extremes, i - 1).type = At(extremes, i).type
         THEN collapse_extremes_first(DelAt(extremes, i + 1), i - 1)
         ELSE collapse_extremes_first(extremes, i - 1)

\* "only last of consecutive peaks or consecutive bottoms is relevant":
\* for i in range(len(extremes) - 1, 0, -1), 0-based i.
RECURSIVE collapse_extremes(_, _)
collapse_extremes(extremes, i) ==
    IF i < 1 THEN extremes
    ELSE IF At(extremes, i - 1).type = At(extremes, i).type
         THEN collapse_extremes(DelAt(extremes, i), i - 1)
         ELSE collapse_extremes(extremes, i - 1)

parse_segment_for_peaks(tps, i_first, i_last) ==
    LET st0 == [prev_tp |-> At(tps, i_first), prev_alt |-> At(tps, i_first).alt,
                prev_going_up |-> FALSE, prev_going_down |-> FALSE,
                going_up_counter |-> 0, going_down_counter |-> 0,
                extremes |-> <<>>, hm_up |-> 0, hm_down |-> 0]
        st == peaks_loop(tps, i_first + 1, i_last, st0)
    IN  [extremes |-> collapse_extremes(st.extremes, Len(st.extremes) - 1),
         hm_up |-> st.hm_up, hm_down |-> st.hm_down]

----------------------------------------------------------------------------
(* Segment.                                                                *)

\* Segment.calc_distance_duration
calc_distance_duration(tps, seg) ==
    [seg EXCEPT !.distance = distance_along_path(tps, seg.i_first_tp,
                                                  seg.i_last_tp),
                !.duration_s = seconds(seg.first, seg.last)]

\* Segment.recalc
recalc(tps, seg) ==
    calc_distance_duration(tps,
        [seg EXCEPT !.first = At(tps, seg.i_first_tp),
                    !.last = At(tps, seg.i_last_tp),
                    !.type = "recalc"])

\* Segment.__init__
Segment(tps, acts, id, i_first, i_last, act, type) ==
    LET pk == parse_segment_for_peaks(tps, i_first, i_last)
    IN  calc_distance_duration(tps,
            [id |-> id, i_first_tp |-> i_first, i_last_tp |-> i_last,
             previous_segment |-> NoSegment, next_segment |-> NoSegment,
             activity_id |-> act, order_activity |-> acts[act].order,
             type |-> type,
             first |-> At(tps, i_first), last |-> At(tps, i_last),
             distance |-> 0, duration_s |-> 0,
             extremes |-> pk.extremes, hm_up |-> pk.hm_up,
             hm_down |-> pk.hm_down, transits |-> <<>>])

\* Segment.speed, km/h as a fraction: km_h(distance * 1000.0 / duration_s)
speed(seg) ==
    IF seg.duration_s > 0
    THEN [num |-> seg.distance * 36, den |-> seg.duration_s * 10]
    ELSE [num |-> 0, den |-> 1]

----------------------------------------------------------------------------
(* Track._suggest_segments: the detector.                                  *)

\* "isinstance(activity, str)": _activities answers an id it has no row for
\* with a string, which has none of a row's attributes.
invalid_activity(acts, act) == act \notin DOMAIN acts

\* The row _suggest_segments reads its thresholds from.
suggest_profile(acts, act) == IF invalid_activity(acts, act) THEN "run" ELSE act

\* _activities[activity_id] with the thresholds parsed as the code does:
\* float(cell.replace("s", "")) and float(cell.replace("m", "")).
time_window_s(acts, act) == ParseNumber(StrRemove(acts[act].time_window_s, LetterS))
window_dist_m(acts, act) == ParseNumber(StrRemove(acts[act].window_dist_m, LetterM))
final_hop_m(acts, act) == ParseNumber(StrRemove(acts[act].final_hop_m, LetterM))
minimum_break_s(acts, act) ==
    ParseNumber(StrRemove(acts[act].minimum_break_s, LetterS))

\* Number of leading entries of the buffer older than the window
\* (the for/break loop that counts i_entries_to_delete up from -1).
RECURSIVE too_old_prefix(_, _, _, _)
too_old_prefix(dl, k, now_s, window_s) ==
    IF k >= Len(dl) THEN k
    ELSE IF now_s - dl[k + 1].s > window_s
         THEN too_old_prefix(dl, k + 1, now_s, window_s)
         ELSE k

\* The trimming with "i_entries_to_delete = -2" before the counting loop.
trim_window_keeping(dl, now_s, window_s) ==
    LET i_entries_to_delete == too_old_prefix(dl, 0, now_s, window_s) - 2
    IN  IF i_entries_to_delete > 0
        THEN SubSeq(dl, i_entries_to_delete + 1, Len(dl))
        ELSE dl

\* for i in range(0, i_entries_to_delete): del distance_list[0]
trim_window(dl, now_s, window_s) ==
    LET i_entries_to_delete == too_old_prefix(dl, 0, now_s, window_s) - 1
    IN  IF i_entries_to_delete > 0
        THEN SubSeq(dl, i_entries_to_delete + 1, Len(dl))
        ELSE dl

\* for i in range(1, distance_list_length): ... break
\* The value of i after the loop (0-based); the list has >= 2 entries.
RECURSIVE first_hop_index(_, _, _)
first_hop_index(dl, i, hop) ==
    IF i >= Len(dl) - 1 THEN i
    ELSE IF At(dl, i).d - At(dl, i - 1).d > hop THEN i
    ELSE first_hop_index(dl, i + 1, hop)

\* for i in range(distance_list_length - 2, -1, -1): ... break
RECURSIVE last_hop_index(_, _, _)
last_hop_index(dl, i, hop) ==
    IF i <= 0 THEN i
    ELSE IF At(dl, i + 1).d - At(dl, i).d > hop THEN i
    ELSE last_hop_index(dl, i - 1, hop)

\* The three "if mode ==" blocks run one after the other for one point.
\* st = [mode, distance_list, i_segment_first_tp, break_tp, stopped,
\*       i_segment_last_tp, error]
block_before_first_start(st, dwin, wdist, hop) ==
    IF st.mode = "before_first_start" /\ dwin > wdist
    THEN IF Len(st.distance_list) < 2 THEN [st EXCEPT !.error = TRUE]
         ELSE [st EXCEPT
                 !.i_segment_first_tp =
                     At(st.distance_list,
                        first_hop_index(st.distance_list, 1, hop)).i,
                 !.mode = "movement_happens",
                 !.distance_list = <<>>]
    ELSE st

\* The block without its line "mode = 'break_time'".
block_movement_happens_staying(st, tps, dwin, wdist, hop) ==
    IF ~st.error /\ st.mode = "movement_happens" /\ dwin < wdist
    THEN IF Len(st.distance_list) < 2 THEN [st EXCEPT !.error = TRUE]
         ELSE LET i_last == At(st.distance_list,
                               last_hop_index(st.distance_list,
                                              Len(st.distance_list) - 2,
                                              hop)).i
              IN  [st EXCEPT !.i_segment_last_tp = i_last,
                             !.break_tp = At(tps, i_last),
                             !.stopped = TRUE,
                             !.distance_list = <<>>]
    ELSE st

block_movement_happens(st, tps, dwin, wdist, hop) ==
    IF ~st.error /\ st.mode = "movement_happens" /\ dwin < wdist
    THEN IF Len(st.distance_list) < 2 THEN [st EXCEPT !.error = TRUE]
         ELSE LET i_last == At(st.distance_list,
                               last_hop_index(st.distance_list,
                                              Len(st.distance_list) - 2,
                                              hop)).i
              IN  [st EXCEPT !.i_segment_last_tp = i_last,
                             !.break_tp = At(tps, i_last),
                             !.stopped = TRUE,
                             !.mode = "break_time",
                             !.distance_list = <<>>]
    ELSE st

block_break_time_eager(st, tp, wdist, hop) ==
    IF ~st.error /\ st.mode = "break_time"
       /\ distance(tp, st.break_tp) > hop
    THEN IF Len(st.distance_list) < 2 THEN [st EXCEPT !.error = TRUE]
         ELSE [st EXCEPT
                 !.i_segment_first_tp =
                     At(st.distance_list,
                        first_hop_index(st.distance_list, 1, hop)).i,
                 !.mode = "movement_happens",
                 !.distance_list = <<>>]
    ELSE st

block_break_time(st, tp, wdist, hop) ==
    IF ~st.error /\ st.mode = "break_time"
       /\ distance(tp, st.break_tp) > wdist
    THEN IF Len(st.distance_list) < 2 THEN [st EXCEPT !.error = TRUE]
         ELSE [st EXCEPT
                 !.i_segment_first_tp =
                     At(st.distance_list,
                        first_hop_index(st.distance_list, 1, hop)).i,
                 !.mode = "movement_happens",
                 !.distance_list = <<>>]
    ELSE st

\* The head of one pass: the point's entry is appended to distance_list and
\* the list is trimmed from the front.
appended_and_trimmed(tps, acts, act, i, dl, dfs) ==
    LET tp == At(tps, i)
        first_tp == At(tps, 0)
        prev_tp == IF i = 0 THEN first_tp ELSE At(tps, i - 1)
        seconds_from_start == seconds(tp, first_tp)
    IN  trim_window(Append(dl, [s |-> seconds_from_start,
                                d |-> dfs + distance(tp, prev_tp), i |-> i]),
                    seconds_from_start,
                    time_window_s(acts, suggest_profile(acts, act)))

\* One pass of "for i_tp, tp in enumerate(self.trackpoints)".
suggest_point(tps, acts, act, i, md, dl, dfs, i_first, brk) ==
    LET prof == suggest_profile(acts, act)
        tp == At(tps, i)
        first_tp == At(tps, 0)
        prev_tp == IF i = 0 THEN first_tp ELSE At(tps, i - 1)
        dfs2 == dfs + distance(tp, prev_tp)
        dl2 == appended_and_trimmed(tps, acts, act, i, dl, dfs)
        distance_within_time_window == dfs2 - dl2[1].d
        window_size_s == dl2[Len(dl2)].s - dl2[1].s
        st0 == [mode |-> md, distance_list |-> dl2,
                i_segment_first_tp |-> i_first, break_tp |-> brk,
                stopped |-> FALSE, i_segment_last_tp |-> 0, error |-> FALSE]
        st1 == block_before_first_start(st0, distance_within_time_window,
                                        window_dist_m(acts, prof),
                                        final_hop_m(acts, prof))
        st2 == block_movement_happens(st1, tps, distance_within_time_window,
                                      window_dist_m(acts, prof),
                                      final_hop_m(acts, prof))
        st3 == block_break_time(st2, tp, window_dist_m(acts, prof),
                                final_hop_m(acts, prof))
    IN  [dist_from_start |-> dfs2,
         st |-> IF window_size_s < time_window_s(acts, prof) THEN st0 ELSE st3]

----------------------------------------------------------------------------
(* Segment.parse_segment_for_transits and the two splitters.               *)

\* geo.calc_nwse over the points of a segment, then Placemark.inside.
inside_segment_area(tps, seg, br) ==
    LET idx == seg.i_first_tp .. seg.i_last_tp
    IN  /\ \E i \in idx : At(tps, i).lat <= br.lat
        /\ \E i \in idx : At(tps, i).lat >= br.lat
        /\ \E i \in idx : At(tps, i).lon <= br.lon
        /\ \E i \in idx : At(tps, i).lon >= br.lon

\* The index in range(i_first_tp, i_last_tp) closest to the break
\* (first minimum; min_i_tp starts at 0, min_dist at 9999 km).
RECURSIVE closest_index(_, _, _, _, _, _)
closest_index(tps, br, i, i_last, min_i_tp, min_dist) ==
    IF i >= i_last THEN [i_tp |-> min_i_tp, dist |-> min_dist]
    ELSE LET d == distance(br, At(tps, i))
         IN  IF d < min_dist
             THEN closest_index(tps, br, i + 1, i_last, i, d)
             ELSE closest_index(tps, br, i + 1, i_last, min_i_tp, min_dist)

RECURSIVE transits_of(_, _, _, _)
transits_of(tps, seg, breaks, k) ==
    IF k > Len(breaks) THEN <<>>
    ELSE LET br == breaks[k]
             c == closest_index(tps, br, seg.i_first_tp, seg.i_last_tp, 0,
                                9999000)
         IN  (IF inside_segment_area(tps, seg, br) /\ c.dist < 20
              THEN <<c.i_tp>> ELSE <<>>)
             \o transits_of(tps, seg, breaks, k + 1)

parse_segment_for_transits(tps, seg, breaks) ==
    [seg EXCEPT !.transits = transits_of(tps, seg, breaks, 1)]

\* list.insert(i, x) for a 0-based i within the list
InsertAt(s, i, x) == SubSeq(s, 1, i) \o <<x>> \o SubSeq(s, i + 1, Len(s))

\* Track._split_segment_at with "segment.i_last_tp = i_tp + 1": the two halves
\* overlap by one step.
split_segment_at_overlapping(tps, acts, segs, i_seg, at_tp, new_id) ==
    LET segment == At(segs, i_seg)
        new_segment == Segment(tps, acts, new_id, at_tp, segment.i_last_tp,
                               segment.activity_id, "split")
        shortened == recalc(tps, [segment EXCEPT !.i_last_tp = at_tp + 1])
    IN  InsertAt([segs EXCEPT ![i_seg + 1] = shortened], i_seg + 1,
                 new_segment)

\* Track._split_segment_at; new_id is the identity of the new Segment.
split_segment_at(tps, acts, segs, i_seg, at_tp, new_id) ==
    LET segment == At(segs, i_seg)
        new_segment == Segment(tps, acts, new_id, at_tp, segment.i_last_tp,
                               segment.activity_id, "split")
        shortened == recalc(tps, [segment EXCEPT !.i_last_tp = at_tp])
    IN  InsertAt([segs EXCEPT ![i_seg + 1] = shortened], i_seg + 1,
                 new_segment)

\* Ascending sort of a list of numbers (list.sort()).
RECURSIVE SortNumbers(_)
SortNumbers(s) ==
    IF s = <<>> THEN <<>>
    ELSE LET k == CHOOSE k \in 1..Len(s) :
                     /\ \A j \in 1..Len(s) : s[k] <= s[j]
                     /\ \A j \in 1..(k - 1) : s[j] # s[k]
         IN  <<s[k]>> \o SortNumbers(DelAt(s, k))

\* The inner loop of a splitter: split segment i_seg at cuts[k], k downward.
RECURSIVE split_at_all(_, _, _, _, _, _, _)
split_at_all(tps, acts, segs, i_seg, cuts, k, id) ==
    IF k < 1 THEN segs
    ELSE split_at_all(tps, acts,
                      split_segment_at(tps, acts, segs, i_seg, cuts[k], id),
                      i_seg, cuts, k - 1, id + 1)

\* Track._split_track_at_transits: for i_seg in range(seg_count - 1, -1, -1)
RECURSIVE split_track_at_transits(_, _, _, _, _)
split_track_at_transits(tps, acts, segs, i_seg, id) ==
    IF i_seg < 0 THEN segs
    ELSE LET cuts == SortNumbers(At(segs, i_seg).transits)
             sorted == [segs EXCEPT ![i_seg + 1].transits = cuts]
         IN  split_track_at_transits(tps, acts,
                 split_at_all(tps, acts, sorted, i_seg, cuts, Len(cuts), id),
                 i_seg - 1, id + Len(cuts))

ExtremeIndices(seg) == [k \in 1..Len(seg.extremes) |-> seg.extremes[k].i_tp]

\* Track._split_track_at_peaks: the splitting loop, then the relabelling
\* of climbing segments to "lift".
RECURSIVE split_at_extremes(_, _, _, _, _)
split_at_extremes(tps, acts, segs, i_seg, id) ==
    IF i_seg < 0 THEN segs
    ELSE LET cuts == ExtremeIndices(At(segs, i_seg))
         IN  split_at_extremes(tps, acts,
                 split_at_all(tps, acts, segs, i_seg, cuts, Len(cuts), id),
                 i_seg - 1, id + Len(cuts))

relabel_lifts(segs) ==
    [k \in 1..Len(segs) |->
        IF segs[k].activity_id \in {"downhill", "snowboard"}
           /\ Abs(segs[k].hm_up) > Abs(segs[k].hm_down)
        THEN [segs[k] EXCEPT !.activity_id = "lift"]
        ELSE segs[k]]

split_track_at_peaks(tps, acts, segs, id) ==
    relabel_lifts(split_at_extremes(tps, acts, segs, Len(segs) - 1, id))

\* Number of Segment objects one splitter pass creates.
RECURSIVE count_cuts(_, _)
count_cuts(segs, peaks) ==
    IF segs = <<>> THEN 0
    ELSE (IF peaks THEN Len(Head(segs).extremes) ELSE Len(Head(segs).transits))
         + count_cuts(Tail(segs), peaks)

----------------------------------------------------------------------------
(* The post-passes of Track.__init__ over the segment list.                *)

\* The merging loop with "i_last_tp = self.segments[i_segment + 1].i_first_tp".
RECURSIVE merge_short_breaks_to_first(_, _, _, _)
merge_short_breaks_to_first(tps, segs, i_segment, min_break) ==
    IF i_segment < 0 THEN segs
    ELSE LET this == At(segs, i_segment)
             next == At(segs, i_segment + 1)
             break_length == seconds(At(tps, this.i_last_tp),
                                     At(tps, next.i_first_tp))
         IN  IF break_length < min_break
             THEN merge_short_breaks_to_first(tps,
                      DelAt([segs EXCEPT ![i_segment + 1] =
                                recalc(tps, [this EXCEPT
                                               !.i_last_tp = next.i_first_tp])],
                            i_segment + 2),
                      i_segment - 1, min_break)
             ELSE merge_short_breaks_to_first(tps, segs, i_segment - 1, min_break)

\* "Eliminate too short breaks by merging the adjacent segments":
\* for i_segment in range(segment_count - 2, -1, -1)
RECURSIVE merge_short_breaks(_, _, _, _)
merge_short_breaks(tps, segs, i_segment, min_break) ==
    IF i_segment < 0 THEN segs
    ELSE LET this == At(segs, i_segment)
             next == At(segs, i_segment + 1)
             break_length == seconds(At(tps, this.i_last_tp),
                                     At(tps, next.i_first_tp))
         IN  IF break_length < min_break
             THEN merge_short_breaks(tps,
                      DelAt([segs EXCEPT ![i_segment + 1] =
                                recalc(tps, [this EXCEPT
                                               !.i_last_tp = next.i_last_tp])],
                            i_segment + 2),
                      i_segment - 1, min_break)
             ELSE merge_short_breaks(tps, segs, i_segment - 1, min_break)

\* eliminate_too_short_segments_strict with "segment_length <= time_window_s".
RECURSIVE eliminate_too_short_segments_strict(_, _, _, _)
eliminate_too_short_segments_strict(tps, segs, i_segment, window_s) ==
    IF i_segment < 0 THEN segs
    ELSE LET segment == At(segs, i_segment)
             segment_length == seconds(At(tps, segment.i_last_tp),
                                       At(tps, segment.i_first_tp))
             can_be_deleted == segment_length <= window_s
                               \/ segment.distance < 100
         IN  eliminate_too_short_segments_strict(tps,
                 IF can_be_deleted THEN DelAt(segs, i_segment + 1) ELSE segs,
                 i_segment - 1, window_s)

\* Track.eliminate_too_short_segments:
\* for i_segment in range(segment_count - 1, -1, -1)
RECURSIVE eliminate_too_short_segments(_, _, _, _)
eliminate_too_short_segments(tps, segs, i_segment, window_s) ==
    IF i_segment < 0 THEN segs
    ELSE LET segment == At(segs, i_segment)
             segment_length == seconds(At(tps, segment.i_last_tp),
                                       At(tps, segment.i_first_tp))
             can_be_deleted == segment_length < window_s
                               \/ segment.distance < 100
         IN  eliminate_too_short_segments(tps,
                 IF can_be_deleted THEN DelAt(segs, i_segment + 1) ELSE segs,
                 i_segment - 1, window_s)

\* Track.update_previous_next_pointers (and the same loop at the end of
\* _compress_track): links by object identity.
update_previous_next_pointers(segs) ==
    [k \in 1..Len(segs) |->
        [segs[k] EXCEPT
           !.previous_segment = IF k > 1 THEN segs[k - 1].id ELSE @,
           !.next_segment = IF k < Len(segs) THEN segs[k + 1].id ELSE @]]

\* Track.calc_track_net: every segment recomputes distance and duration,
\* the track sums them.
RECURSIVE SumOver(_, _)
SumOver(segs, field) ==
    IF segs = <<>> THEN 0
    ELSE (IF field = "distance" THEN Head(segs).distance
          ELSE Head(segs).duration_s) + SumOver(Tail(segs), field)

\* calc_track_net with "for segment in self.segments[1:]" in the sums.
calc_track_net_tail(tps, segs) ==
    LET recalculated == [k \in 1..Len(segs) |->
                            calc_distance_duration(tps, segs[k])]
    IN  [segments |-> recalculated,
         net_dist |-> SumOver(SubSeq(recalculated, 2, Len(segs)), "distance"),
         net_duration_s |-> SumOver(SubSeq(recalculated, 2, Len(segs)),
                                   "duration_s")]

calc_track_net(tps, segs) ==
    LET recalculated == [k \in 1..Len(segs) |->
                            calc_distance_duration(tps, segs[k])]
    IN  [segments |-> recalculated,
         net_dist |-> SumOver(recalculated, "distance"),
         net_duration_s |-> SumOver(recalculated, "duration_s")]

----------------------------------------------------------------------------
(* Segment.guess_activity and Segment.adjust_activity.                     *)

SpeedOver(sp, k) == sp.num > k * sp.den
SpeedUnder(sp, k) == sp.num < k * sp.den

Reason(rule, limit, act, over20) ==
    [rule |-> rule, limit |-> limit, activity |-> act, over20 |-> over20]

NoReason == Reason("", 0, "", FALSE)

\* guess_activity with "elif speed >= 90".
guess_activity_inclusive(acts, sd) ==
    LET act == sd.activity_id
        min_speed == ParseNumber(<<Zero>> \o acts[act].min_speed)
        alt_slow == acts[act].alt_slow
        max_speed == ParseNumber(<<Zero>> \o acts[act].max_speed)
        alt_fast == acts[act].alt_fast
        first == IF SpeedOver(sd.speed, 200)
                     THEN <<"fly", Reason(">200 km/h", 0, "", FALSE)>>
                 ELSE IF ~SpeedUnder(sd.speed, 90)
                     THEN <<"car", Reason(">90 km/h", 0, "", FALSE)>>
                 ELSE IF SpeedOver(sd.speed, 50) /\ sd.distance > 2000
                     THEN <<"car", Reason(">50 km/h & >2 km", 0, "", FALSE)>>
                 ELSE IF SpeedUnder(sd.speed, min_speed)
                     THEN <<alt_slow, Reason("<min km/h", min_speed, act, FALSE)>>
                 ELSE IF SpeedOver(sd.speed, max_speed) /\ sd.distance > 3000
                     THEN <<alt_fast,
                            Reason(">max km/h & >3 km", max_speed, act, FALSE)>>
                 ELSE <<act, NoReason>>
        to_car == first[1] # act /\ first[1] = "cycle" /\ SpeedOver(sd.speed, 20)
    IN  [sd EXCEPT
           !.new_activity = IF to_car THEN "car" ELSE first[1],
           !.reason = IF to_car THEN [first[2] EXCEPT !.over20 = TRUE]
                      ELSE first[2]]

\* guess_activity with "activity_id = seg_dict['new_activity'] or
\* seg_dict['activity_id']": the call starts from an earlier guess.
guess_activity_chained(acts, sd) ==
    LET act == IF sd.new_activity # None THEN sd.new_activity
               ELSE sd.activity_id
        min_speed == ParseNumber(<<Zero>> \o acts[act].min_speed)
        alt_slow == acts[act].alt_slow
        max_speed == ParseNumber(<<Zero>> \o acts[act].max_speed)
        alt_fast == acts[act].alt_fast
        first == IF SpeedOver(sd.speed, 200)
                     THEN <<"fly", Reason(">200 km/h", 0, "", FALSE)>>
                 ELSE IF SpeedOver(sd.speed, 90)
                     THEN <<"car", Reason(">90 km/h", 0, "", FALSE)>>
                 ELSE IF SpeedOver(sd.speed, 50) /\ sd.distance > 2000
                     THEN <<"car", Reason(">50 km/h & >2 km", 0, "", FALSE)>>
                 ELSE IF SpeedUnder(sd.speed, min_speed)
                     THEN <<alt_slow, Reason("<min km/h", min_speed, act, FALSE)>>
                 ELSE IF SpeedOver(sd.speed, max_speed) /\ sd.distance > 3000
                     THEN <<alt_fast,
                            Reason(">max km/h & >3 km", max_speed, act, FALSE)>>
                 ELSE <<act, NoReason>>
        to_car == first[1] # act /\ first[1] = "cycle" /\ SpeedOver(sd.speed, 20)
    IN  [sd EXCEPT
           !.new_activity = IF to_car THEN "car" ELSE first[1],
           !.reason = IF to_car THEN [first[2] EXCEPT !.over20 = TRUE]
                      ELSE first[2]]

\* Segment.guess_activity: the dictionary with new_activity and reason set.
\* distance is in metres (2 km = 2000).
guess_activity(acts, sd) ==
    LET act == sd.activity_id
        min_speed == ParseNumber(<<Zero>> \o acts[act].min_speed)
        alt_slow == acts[act].alt_slow
        max_speed == ParseNumber(<<Zero>> \o acts[act].max_speed)
        alt_fast == acts[act].alt_fast
        first == IF SpeedOver(sd.speed, 200)
                     THEN <<"fly", Reason(">200 km/h", 0, "", FALSE)>>
                 ELSE IF SpeedOver(sd.speed, 90)
                     THEN <<"car", Reason(">90 km/h", 0, "", FALSE)>>
                 ELSE IF SpeedOver(sd.speed, 50) /\ sd.distance > 2000
                     THEN <<"car", Reason(">50 km/h & >2 km", 0, "", FALSE)>>
                 ELSE IF SpeedUnder(sd.speed, min_speed)
                     THEN <<alt_slow, Reason("<min km/h", min_speed, act, FALSE)>>
                 ELSE IF SpeedOver(sd.speed, max_speed) /\ sd.distance > 3000
                     THEN <<alt_fast,
                            Reason(">max km/h & >3 km", max_speed, act, FALSE)>>
                 ELSE <<act, NoReason>>
        to_car == first[1] # act /\ first[1] = "cycle" /\ SpeedOver(sd.speed, 20)
    IN  [sd EXCEPT
           !.new_activity = IF to_car THEN "car" ELSE first[1],
           !.reason = IF to_car THEN [first[2] EXCEPT !.over20 = TRUE]
                      ELSE first[2]]

\* Segment.as_dict, the entries guess_activity reads.
as_dict(seg) ==
    [activity_id |-> seg.activity_id, speed |-> speed(seg),
     distance |-> seg.distance, new_activity |-> None, reason |-> NoReason]

\* row_applies with "row_time_from > seg_time_from or
\* seg_time_from > row_time_to" and "time_row.time == seg_time_from[:5]".
row_applies_at_start(seg, time_row) ==
    LET seg_date == date_yymd(seg.first)
        seg_time_from == time_hms(seg.first)
        row_split == Split(time_row.time, Minus)
        row_time_from == IF row_split[1] = <<>>
                         THEN <<48, 48, Colon, 48, 48, Colon, 48, 48>>
                         ELSE row_split[1]
        row_time_to == IF row_split[2] = <<>>
                       THEN <<50, 51, Colon, 53, 57, Colon, 53, 57>>
                       ELSE row_split[2]
    IN  IF seg_date # time_row.date THEN FALSE
        ELSE IF Len(time_row.time) = 5
             THEN time_row.time = SubSeq(seg_time_from, 1, 5)
        ELSE IF Len(row_split) # 2 THEN FALSE
        ELSE ~(StrLess(seg_time_from, row_time_from)
               \/ StrLess(row_time_to, seg_time_from))

\* One row of _time_metadata against the segment: TRUE when the row sets
\* the activity.
row_applies(seg, time_row) ==
    LET seg_date == date_yymd(seg.first)
        seg_time_from == time_hms(seg.first)
        seg_time_to == time_hms(seg.last)
        row_split == Split(time_row.time, Minus)
        row_time_from == IF row_split[1] = <<>>
                         THEN <<48, 48, Colon, 48, 48, Colon, 48, 48>>
                         ELSE row_split[1]
        row_time_to == IF row_split[2] = <<>>
                       THEN <<50, 51, Colon, 53, 57, Colon, 53, 57>>
                       ELSE row_split[2]
    IN  IF seg_date # time_row.date THEN FALSE
        ELSE IF Len(time_row.time) = 5
             THEN StrLess(seg_time_from, time_row.time)
                  /\ StrLess(time_row.time, seg_time_to)
        ELSE IF Len(row_split) # 2 THEN FALSE
        ELSE ~(StrLess(seg_time_to, row_time_from)
               \/ StrLess(row_time_to, seg_time_from))

\* The loop with a "break" after the assignment: the first applying row
\* ends it.
RECURSIVE apply_time_rows_break(_, _, _, _)
apply_time_rows_break(acts, seg, rows, k) ==
    IF k > Len(rows) THEN seg
    ELSE IF row_applies(seg, rows[k])
         THEN [seg EXCEPT !.activity_id = rows[k].activity_id,
                          !.order_activity = acts[rows[k].activity_id].order]
         ELSE apply_time_rows_break(acts, seg, rows, k + 1)

\* for time_row in _time_metadata: every applying row assigns in turn.
RECURSIVE apply_time_rows(_, _, _, _)
apply_time_rows(acts, seg, rows, k) ==
    IF k > Len(rows) THEN seg
    ELSE apply_time_rows(acts,
             IF row_applies(seg, rows[k])
             THEN [seg EXCEPT !.activity_id = rows[k].activity_id,
                              !.order_activity = acts[rows[k].activity_id].order]
             ELSE seg,
             rows, k + 1)

adjust_activity_unlinking(acts, rows, seg) ==
    LET guessed == guess_activity(acts, as_dict(seg)).new_activity
    IN  apply_time_rows(acts,
                        [seg EXCEPT !.activity_id = guessed,
                                    !.order_activity = acts[guessed].order,
                                    !.next_segment = NoSegment],
                        rows, 1)

\* Segment.adjust_activity
adjust_activity(acts, rows, seg) ==
    LET guessed == guess_activity(acts, as_dict(seg)).new_activity
    IN  apply_time_rows(acts,
                        [seg EXCEPT !.activity_id = guessed,
                                    !.order_activity = acts[guessed].order],
                        rows, 1)

\* Track._adjust_segment_activities
adjust_segment_activities(acts, rows, segs) ==
    [k \in 1..Len(segs) |-> adjust_activity(acts, rows, segs[k])]

\* Track._sort_by_activity: list.sort(key=order_activity), a stable sort on
\* the order strings.
RECURSIVE sort_by_activity(_)
sort_by_activity(segs) ==
    IF segs = <<>> THEN <<>>
    ELSE LET k == CHOOSE k \in 1..Len(segs) :
                     /\ \A j \in 1..Len(segs) :
                           ~StrLess(segs[j].order_activity,
                                    segs[k].order_activity)
                     /\ \A j \in 1..(k - 1) :
                           StrLess(segs[k].order_activity,
                                   segs[j].order_activity)
         IN  <<segs[k]>> \o sort_by_activity(DelAt(segs, k))

----------------------------------------------------------------------------
(* Track._compress_section and Track._compress_track.                      *)

\* Units of the tolerance per metre: c_t = net_dist * 0.00001 is exact.
CtScale == 100000
\* c_t_ratio in units of 0.00001: the default, and the 0.05 of "zipped".
DefaultRatio == 1
ZippedRatio == 5000
\* c_t_rough = 0.02 (km) for lifts
LiftTolerance == 20 * CtScale

\* The narrowing loop "while not borders_have_converged": the chosen
\* i_pi and its detour d_n.
RECURSIVE narrow(_, _, _, _, _)
narrow(tps, i_p1, i_p2, i_pg1, i_pg2) ==
    LET tp1 == At(tps, i_p1)
        tp2 == At(tps, i_p2)
        i_diff == i_pg2 - i_pg1
        i_third == (i_diff + 1) \div 3
        i_pga == i_pg1 + i_third
        i_pgb == i_pg2 - i_third
        d1a2 == distance(tp1, At(tps, i_pga)) + distance(At(tps, i_pga), tp2)
        d1b2 == distance(tp1, At(tps, i_pgb)) + distance(At(tps, i_pgb), tp2)
        a_is_better_guess == d1a2 > d1b2
        n_pg1 == IF a_is_better_guess THEN i_pg1 ELSE i_pga
        n_pg2 == IF a_is_better_guess THEN i_pgb ELSE i_pg2
    IN  IF Abs(n_pg1 - n_pg2) <= 1
        THEN IF a_is_better_guess THEN [i_pi |-> i_pga, d_n |-> d1a2]
             ELSE [i_pi |-> i_pgb, d_n |-> d1b2]
        ELSE narrow(tps, i_p1, i_p2, n_pg1, n_pg2)

\* _compress_section with "(d_n - d_s) > c_t / 2".
RECURSIVE compress_section_halved(_, _, _, _, _)
compress_section_halved(tps, i_p1, i_p2, c_t, c_l) ==
    LET d_s == distance(At(tps, i_p1), At(tps, i_p2))
        pick == narrow(tps, i_p1, i_p2, i_p1, i_p2)
        significant_improvement == (pick.d_n - d_s) * CtScale * 2 > c_t
    IN  IF significant_improvement
        THEN compress_section_halved(tps, pick.i_pi, i_p2, c_t,
                 compress_section_halved(tps, i_p1, pick.i_pi, c_t,
                                         Append(c_l, pick.i_pi)))
        ELSE c_l

\* Track._compress_section: the compression list after the call.
RECURSIVE compress_section(_, _, _, _, _)
compress_section(tps, i_p1, i_p2, c_t, c_l) ==
    LET d_s == distance(At(tps, i_p1), At(tps, i_p2))
        pick == narrow(tps, i_p1, i_p2, i_p1, i_p2)
        significant_improvement == (pick.d_n - d_s) * CtScale > c_t
    IN  IF significant_improvement
        THEN compress_section(tps, pick.i_pi, i_p2, c_t,
                 compress_section(tps, i_p1, pick.i_pi, c_t,
                                  Append(c_l, pick.i_pi)))
        ELSE c_l

\* The sorted compression list of one segment.
segment_tolerance(seg, c_t) ==
    IF seg.activity_id = "lift" THEN LiftTolerance ELSE c_t

\* compression_list without "c_l.sort()"
compression_list_unsorted(tps, seg, c_t) ==
    compress_section(tps, seg.i_first_tp, seg.i_last_tp,
                     segment_tolerance(seg, c_t),
                     <<seg.i_first_tp, seg.i_last_tp>>)

compression_list(tps, seg, c_t) ==
    SortNumbers(compress_section(tps, seg.i_first_tp, seg.i_last_tp,
                                 segment_tolerance(seg, c_t),
                                 <<seg.i_first_tp, seg.i_last_tp>>))

append_compressed_overlapping(tps, acts, new_track, c_l, act, id) ==
    LET i_p1_new_track == IF new_track.trackpoints = <<>> THEN 0
                          ELSE Len(new_track.trackpoints) - 1
        i_p2_new_track == Len(new_track.trackpoints) + Len(c_l) - 1
        new_tps == new_track.trackpoints
                   \o [j \in 1..Len(c_l) |-> At(tps, c_l[j])]
    IN  [trackpoints |-> new_tps,
         segments |-> Append(new_track.segments,
                             Segment(new_tps, acts, id, i_p1_new_track,
                                     i_p2_new_track, act, "compress"))]

\* One pass of the loop "for segment in self.segments" of _compress_track:
\* the points of c_l are appended to the new track and a Segment is made
\* over them.
append_compressed(tps, acts, new_track, c_l, act, id) ==
    LET i_p1_new_track == Len(new_track.trackpoints)
        i_p2_new_track == i_p1_new_track + Len(c_l) - 1
        new_tps == new_track.trackpoints
                   \o [j \in 1..Len(c_l) |-> At(tps, c_l[j])]
    IN  [trackpoints |-> new_tps,
         segments |-> Append(new_track.segments,
                             Segment(new_tps, acts, id, i_p1_new_track,
                                     i_p2_new_track, act, "compress"))]

\* The loop "for segment in self.segments" of _compress_track.
RECURSIVE compress_segments(_, _, _, _, _, _, _)
compress_segments(tps, acts, segs, k, c_t, new_track, id) ==
    IF k > Len(segs) THEN new_track
    ELSE compress_segments(tps, acts, segs, k + 1, c_t,
             append_compressed(tps, acts, new_track,
                               compression_list(tps, segs[k], c_t),
                               segs[k].activity_id, id),
             id + 1)

\* The end of _compress_track: the pointers are set and
\* new_track.calc_track_net() is called.
finish_new_track(new_tps, netted) ==
    [trackpoints |-> new_tps, segments |-> netted.segments,
     net_dist |-> netted.net_dist, net_duration_s |-> netted.net_duration_s]

link_new_track(built) ==
    finish_new_track(built.trackpoints,
                     calc_track_net(built.trackpoints,
                                    update_previous_next_pointers(
                                        built.segments)))

\* _compress_track with "c_t = self.net_dist * (0.05001 - c_t_ratio)": the
\* tolerance falls as c_t_ratio rises.
compress_track_reversed(tps, acts, segs, net, ratio, id) ==
    link_new_track(compress_segments(tps, acts, segs, 1,
                                     net * (ZippedRatio + DefaultRatio - ratio),
                                     [trackpoints |-> <<>>,
                                      segments |-> <<>>],
                                     id))

\* Track._compress_track; ratio is c_t_ratio in units of 0.00001.
compress_track(tps, acts, segs, net, ratio, id) ==
    link_new_track(compress_segments(tps, acts, segs, 1, net * ratio,
                                     [trackpoints |-> <<>>,
                                      segments |-> <<>>],
                                     id))

EmptyTrack == [trackpoints |-> <<>>, segments |-> <<>>, net_dist |-> 0,
               net_duration_s |-> 0]

----------------------------------------------------------------------------
(* Inputs: traces built from a start fix by bounded steps.                 *)

MaxPoints == 7

StartTime == 43200
NoPoint == Trackpoint(0, 0, 0, 0)

Move(dlat, dlon, dt, dalt) ==
    [dlat |-> dlat, dlon |-> dlon, dt |-> dt, dalt |-> dalt]

StepFrom(tp, m) ==
    Trackpoint(tp.lat + m.dlat, tp.lon + m.dlon, tp.datetime + m.dt,
               tp.alt + m.dalt)

RECURSIVE TracesOfLen(_, _)
TracesOfLen(n, moves) ==
    IF n = 0 THEN {<<>>}
    ELSE IF n = 1 THEN {<<Trackpoint(0, 0, StartTime, 0)>>}
    ELSE {Append(t, StepFrom(t[Len(t)], m)) :
              t \in TracesOfLen(n - 1, moves), m \in moves}

TracesUpTo(n, moves) == UNION {TracesOfLen(k, moves) : k \in 0..n}

\* Steps of one minute: jitter, a walking and a running pace.
RunMoves == {Move(5, 0, 60, 0), Move(120, 0, 60, 0), Move(200, 0, 60, 0)}

\* A ge_forced_breaks.csv with one row.
BreakTable == <<[text |-> "gate", lat |-> 320, lon |-> 0]>>

NoCall == [i_from |-> 0, i_to |-> 0, returned |-> None]

NoSegDict == [activity_id |-> None, speed |-> [num |-> 0, den |-> 1],
              distance |-> 0, new_activity |-> None, reason |-> NoReason]

----------------------------------------------------------------------------
(* Track.__init__ for a trace file, one action per stage.                  *)

detector_vars == <<i_tp, mode, distance_list, dist_from_start,
                   i_segment_first_tp, break_tp>>
\* What no stage of Track.__init__ assigns: the configuration tables, the
\* trace file, and the record and the activations of a call made on the
\* Track from outside.
table_vars == <<activities, time_metadata, forced_breaks, infile, call,
                frames>>
result_vars == <<net_dist, net_duration_s, compressed, zipped>>

\* The fields of a new Track, the configuration tables and an empty userbug
\* list.
TrackFields(traces, acts, rows, breaks) ==
    /\ trackpoints \in traces
    /\ activity_id \in acts
    /\ segments = <<>>
    /\ next_id = 1
    /\ userbug = <<>>
    /\ i_tp = 0
    /\ mode = "before_first_start"
    /\ distance_list = <<>>
    /\ dist_from_start = 0
    /\ i_segment_first_tp = 0
    /\ break_tp = NoPoint
    /\ net_dist = 0
    /\ net_duration_s = 0
    /\ compressed = EmptyTrack
    /\ zipped = EmptyTrack
    /\ activities = ActivityTable
    /\ time_metadata \in rows
    /\ forced_breaks \in breaks
    /\ infile = trackpoints
    /\ frames = <<>>

\* A new Track on which no method is called from outside.
NewTrack(traces, acts, rows, breaks) ==
    /\ TrackFields(traces, acts, rows, breaks)
    /\ call = NoCall

\* A Track about to read its file: the raw trace, the track's activity and
\* the configuration tables.
InitTrack(traces, acts, rows, breaks) ==
    /\ pc = "import"
    /\ seg_dict = NoSegDict
    /\ NewTrack(traces, acts, rows, breaks)

Init ==
    InitTrack(TracesUpTo(MaxPoints, RunMoves), {"run"}, {<<>>},
              {<<>>, BreakTable})

\* Track._import_file: a file without trackpoints is reported and
\* __init__ returns; otherwise the still points are eliminated.
ImportFile ==
    /\ pc = "import"
    /\ IF Len(trackpoints) = 0
       THEN /\ userbug' = Append(userbug, "import_file: zero trackpoints")
            /\ pc' = "done"
            /\ UNCHANGED trackpoints
       ELSE /\ trackpoints' = eliminate_still_points(trackpoints)
            /\ pc' = "suggest"
            /\ UNCHANGED userbug
    /\ UNCHANGED <<activity_id, segments, next_id, seg_dict>>
    /\ UNCHANGED <<detector_vars, table_vars, result_vars>>

\* Track._suggest_segments up to the loop over the trackpoints.
SuggestSegments ==
    /\ pc = "suggest"
    /\ IF Len(trackpoints) = 0
       THEN /\ userbug' = Append(userbug, "No point to suggest segments")
            /\ pc' = "transits"
            /\ UNCHANGED detector_vars
       ELSE /\ i_tp' = 0
            /\ mode' = "before_first_start"
            /\ distance_list' = <<>>
            /\ dist_from_start' = 0
            /\ i_segment_first_tp' = 0
            /\ break_tp' = At(trackpoints, 0)
            /\ pc' = "detect"
            /\ UNCHANGED userbug
    /\ UNCHANGED <<trackpoints, activity_id, segments, next_id, seg_dict>>
    /\ UNCHANGED <<table_vars, result_vars>>

\* One pass of the loop over the trackpoints.  An IndexError of the pass,
\* or the AttributeError of Segment.__init__ looking up the order of an
\* activity without row, leaves Track.__init__: pc = "error".
DetectPoint ==
    /\ pc = "detect"
    /\ i_tp < Len(trackpoints)
    /\ LET r == suggest_point(trackpoints, activities, activity_id, i_tp, mode,
                              distance_list, dist_from_start,
                              i_segment_first_tp, break_tp)
       IN  /\ dist_from_start' = r.dist_from_start
           /\ mode' = r.st.mode
           /\ distance_list' = r.st.distance_list
           /\ i_segment_first_tp' = r.st.i_segment_first_tp
           /\ break_tp' = r.st.break_tp
           /\ i_tp' = i_tp + 1
           /\ pc' = IF r.st.error
                       \/ (r.st.stopped
                           /\ invalid_activity(activities, activity_id))
                    THEN "error" ELSE "detect"
           /\ IF r.st.stopped /\ ~invalid_activity(activities, activity_id)
              THEN /\ segments' =
                        Append(segments,
                               Segment(trackpoints, activities, next_id,
                                       r.st.i_segment_first_tp,
                                       r.st.i_segment_last_tp, activity_id,
                                       "has_stopped"))
                   /\ next_id' = next_id + 1
                   /\ userbug' = userbug \o distance_along_path_userbug(
                                     trackpoints, r.st.i_segment_first_tp,
                                     r.st.i_segment_last_tp)
              ELSE UNCHANGED <<segments, next_id, userbug>>
    /\ UNCHANGED <<trackpoints, activity_id, seg_dict>>
    /\ UNCHANGED <<table_vars, result_vars>>

\* The end of input with "i_segment_last_tp = self.count() - 2".
EndOfInput_early ==
    /\ pc = "detect"
    /\ i_tp = Len(trackpoints)
    /\ IF mode = "movement_happens"
       THEN IF invalid_activity(activities, activity_id)
            THEN /\ pc' = "error"
                 /\ UNCHANGED <<segments, next_id>>
            ELSE /\ segments' =
                      Append(segments,
                             Segment(trackpoints, activities, next_id,
                                     i_segment_first_tp, Len(trackpoints) - 2,
                                     activity_id, "abrupt_end"))
                 /\ next_id' = next_id + 1
                 /\ pc' = "merge"
       ELSE /\ pc' = "merge"
            /\ UNCHANGED <<segments, next_id>>
    /\ UNCHANGED <<trackpoints, activity_id, userbug, seg_dict>>
    /\ UNCHANGED <<detector_vars, table_vars, result_vars>>

\* End of input: "Last segment ended abruptly" closes the open segment.
EndOfInput ==
    /\ pc = "detect"
    /\ i_tp = Len(trackpoints)
    /\ IF mode = "movement_happens"
       THEN IF invalid_activity(activities, activity_id)
            THEN /\ pc' = "error"
                 /\ UNCHANGED <<segments, next_id>>
            ELSE /\ segments' =
                      Append(segments,
                             Segment(trackpoints, activities, next_id,
                                     i_segment_first_tp, Len(trackpoints) - 1,
                                     activity_id, "abrupt_end"))
                 /\ next_id' = next_id + 1
                 /\ pc' = "merge"
       ELSE /\ pc' = "merge"
            /\ UNCHANGED <<segments, next_id>>
    /\ UNCHANGED <<trackpoints, activity_id, userbug, seg_dict>>
    /\ UNCHANGED <<detector_vars, table_vars, result_vars>>

\* The post-pass of _suggest_segments.
MergeShortBreaks ==
    /\ pc = "merge"
    /\ segments' = merge_short_breaks(
                       trackpoints, segments, Len(segments) - 2,
                       minimum_break_s(activities,
                                       suggest_profile(activities,
                                                       activity_id)))
    /\ pc' = "transits"
    /\ UNCHANGED <<trackpoints, activity_id, next_id, userbug, seg_dict>>
    /\ UNCHANGED <<detector_vars, table_vars, result_vars>>

\* "for seg in self.segments: seg.parse_segment_for_transits()"
ParseTransits ==
    /\ pc = "transits"
    /\ segments' = [k \in 1..Len(segments) |->
                       parse_segment_for_transits(trackpoints, segments[k],
                                                  forced_breaks)]
    /\ pc' = "split_transits"
    /\ UNCHANGED <<trackpoints, activity_id, next_id, userbug, seg_dict>>
    /\ UNCHANGED <<detector_vars, table_vars, result_vars>>

\* Track._split_track_at_transits
SplitTrackAtTransits ==
    /\ pc = "split_transits"
    /\ segments' = split_track_at_transits(trackpoints, activities, segments,
                                           Len(segments) - 1, next_id)
    /\ next_id' = next_id + count_cuts(segments, FALSE)
    /\ pc' = "split_peaks"
    /\ UNCHANGED <<trackpoints, activity_id, userbug, seg_dict>>
    /\ UNCHANGED <<detector_vars, table_vars, result_vars>>

\* "if self.activity_id in ['downhill', 'snowboard']:
\*      self._split_track_at_peaks()"
SplitTrackAtPeaks ==
    /\ pc = "split_peaks"
    /\ IF activity_id \in {"downhill", "snowboard"}
       THEN /\ segments' = split_track_at_peaks(trackpoints, activities,
                                                segments, next_id)
            /\ next_id' = next_id + count_cuts(segments, TRUE)
       ELSE UNCHANGED <<segments, next_id>>
    /\ pc' = "eliminate"
    /\ UNCHANGED <<trackpoints, activity_id, userbug, seg_dict>>
    /\ UNCHANGED <<detector_vars, table_vars, result_vars>>

\* Track.eliminate_too_short_segments; "activity.time_window_s" raises
\* AttributeError for an activity without row.
EliminateTooShortSegments ==
    /\ pc = "eliminate"
    /\ IF invalid_activity(activities, activity_id)
       THEN /\ pc' = "error"
            /\ UNCHANGED segments
       ELSE /\ segments' = eliminate_too_short_segments(
                               trackpoints, segments, Len(segments) - 1,
                               time_window_s(activities, activity_id))
            /\ pc' = "pointers"
    /\ UNCHANGED <<trackpoints, activity_id, next_id, userbug, seg_dict>>
    /\ UNCHANGED <<detector_vars, table_vars, result_vars>>

\* Track.update_previous_next_pointers
UpdatePreviousNextPointers ==
    /\ pc = "pointers"
    /\ segments' = update_previous_next_pointers(segments)
    /\ pc' = "net"
    /\ UNCHANGED <<trackpoints, activity_id, next_id, userbug, seg_dict>>
    /\ UNCHANGED <<detector_vars, table_vars, result_vars>>

\* Track.calc_track_net
CalcTrackNet ==
    /\ pc = "net"
    /\ LET r == calc_track_net(trackpoints, segments)
       IN  /\ segments' = r.segments
           /\ net_dist' = r.net_dist
           /\ net_duration_s' = r.net_duration_s
    /\ pc' = "adjust"
    /\ UNCHANGED <<trackpoints, activity_id, next_id, userbug, seg_dict>>
    /\ UNCHANGED <<detector_vars, table_vars, compressed, zipped>>

\* Track._adjust_segment_activities
AdjustSegmentActivities ==
    /\ pc = "adjust"
    /\ segments' = adjust_segment_activities(activities, time_metadata,
                                             segments)
    /\ pc' = "sort"
    /\ UNCHANGED <<trackpoints, activity_id, next_id, userbug, seg_dict>>
    /\ UNCHANGED <<detector_vars, table_vars, result_vars>>

\* Track._sort_by_activity
SortByActivity ==
    /\ pc = "sort"
    /\ segments' = sort_by_activity(segments)
    /\ pc' = "compress"
    /\ UNCHANGED <<trackpoints, activity_id, next_id, userbug, seg_dict>>
    /\ UNCHANGED <<detector_vars, table_vars, result_vars>>

\* "self.compressed = self._compress_track()"
CompressTrack ==
    /\ pc = "compress"
    /\ compressed' = compress_track(trackpoints, activities, segments,
                                    net_dist, DefaultRatio, next_id)
    /\ next_id' = next_id + Len(segments)
    /\ pc' = "zip"
    /\ UNCHANGED <<trackpoints, activity_id, segments, userbug, seg_dict>>
    /\ UNCHANGED <<detector_vars, table_vars, net_dist, net_duration_s, zipped>>

\* "self.zipped = self._compress_track(0.05)"
ZipTrack ==
    /\ pc = "zip"
    /\ zipped' = compress_track(trackpoints, activities, segments, net_dist,
                                ZippedRatio, next_id)
    /\ next_id' = next_id + Len(segments)
    /\ pc' = "done"
    /\ UNCHANGED <<trackpoints, activity_id, segments, userbug, seg_dict>>
    /\ UNCHANGED <<detector_vars, table_vars, net_dist, net_duration_s,
                   compressed>>

Next ==
    \/ ImportFile
    \/ SuggestSegments
    \/ DetectPoint
    \/ EndOfInput
    \/ MergeShortBreaks
    \/ ParseTransits
    \/ SplitTrackAtTransits
    \/ SplitTrackAtPeaks
    \/ EliminateTooShortSegments
    \/ UpdatePreviousNextPointers
    \/ CalcTrackNet
    \/ AdjustSegmentActivities
    \/ SortByActivity
    \/ CompressTrack
    \/ ZipTrack

Spec == Init /\ [][Next]_vars

Finished == pc = "done"

AddsUp(track) ==
    /\ track.net_dist = SumOver(track.segments, "distance")
    /\ track.net_duration_s = SumOver(track.segments, "duration_s")
    /\ \A k \in 1..Len(track.segments) :
          track.segments[k].distance =
              distance_along_path(track.trackpoints,
                                  track.segments[k].i_first_tp,
                                  track.segments[k].i_last_tp)

\* C6: in a finished Track (and in its compressed and zipped Tracks)
\* net_dist is the sum of the segments' distance, net_duration_s the sum of
\* their duration_s, and every distance is the path distance over the
\* segment's index range.
C6_NetIsSumOfSegments ==
    Finished =>
        /\ AddsUp([trackpoints |-> trackpoints, segments |-> segments,
                   net_dist |-> net_dist, net_duration_s |-> net_duration_s])
        /\ AddsUp(compressed)
        /\ AddsUp(zipped)

\* A finished Track of several segments, one of them shortened by a split.
C6_Witness ==
    /\ Finished
    /\ Len(segments) >= 2
    /\ \E k \in 1..Len(segments) : segments[k].type = "recalc"
    /\ net_dist > segments[1].distance
    /\ segments[1].distance > 0

----------------------------------------------------------------------------
(* Track.__init__ on traces that turn back on themselves, for              *)
(* _compress_track and _compress_section.                                  *)

MaxZigPoints == 7

\* One fix a minute along a meridian, out and back with small steps between.
ZigMoves == {Move(-1000, 0, 60, 0), Move(30, 0, 60, 0),
             Move(1330, 0, 60, 0)}

\* One fix a minute over a rounded corner.
RoofMoves == {Move(100, 400, 60, 0), Move(400, 100, 60, 0),
              Move(400, -100, 60, 0)}

InitCompress ==
    InitTrack(TracesUpTo(MaxZigPoints, ZigMoves)
                  \cup TracesUpTo(MaxZigPoints, RoofMoves),
              {"run"}, {<<>>}, {<<>>})

SpecCompress == InitCompress /\ [][Next]_vars

\* The two Tracks _compress_track has made, each with its tolerance.
CompressedTracks ==
    {[track |-> compressed, c_t |-> net_dist * DefaultRatio],
     [track |-> zipped, c_t |-> net_dist * ZippedRatio]}

\* d_n - d_s for the points at a, k, b of a point list, in tolerance units.
Detour(tps, a, k, b) ==
    (distance(At(tps, a), At(tps, k)) + distance(At(tps, k), At(tps, b))
     - distance(At(tps, a), At(tps, b))) * CtScale

\* C3: the points emitted for a segment begin with the segment's first
\* trackpoint and end with its last trackpoint, at either tolerance.
C3_EndpointsKept ==
    Finished =>
        \A c \in CompressedTracks :
            /\ Len(c.track.segments) = Len(segments)
            /\ \A k \in 1..Len(segments) :
                  /\ At(c.track.trackpoints, c.track.segments[k].i_first_tp)
                        = At(trackpoints, segments[k].i_first_tp)
                  /\ At(c.track.trackpoints, c.track.segments[k].i_last_tp)
                        = At(trackpoints, segments[k].i_last_tp)

\* A finished Track whose zipped segment lost points and kept interior ones.
C3_Witness ==
    /\ Finished
    /\ Len(segments) >= 1
    /\ Len(zipped.trackpoints) >= 3
    /\ Len(zipped.trackpoints) < segments[1].i_last_tp - segments[1].i_first_tp + 1

\* C4 as claimed: every kept interior point is a detour of more than c_t
\* between its two kept neighbours.
C4_NoKeptPointRedundant ==
    Finished =>
        \A c \in CompressedTracks : \A k \in 1..Len(c.track.segments) :
            \A j \in (c.track.segments[k].i_first_tp + 1)
                     ..(c.track.segments[k].i_last_tp - 1) :
                Detour(c.track.trackpoints, j - 1, j, j + 1) > c.c_t

\* C4 amended: every kept interior point is a detour of more than c_t
\* between some kept point before it and some kept point after it in the
\* segment (the ends of the section it was chosen in).
C4_KeptPointWasSignificant ==
    Finished =>
        \A c \in CompressedTracks : \A k \in 1..Len(c.track.segments) :
            \A j \in (c.track.segments[k].i_first_tp + 1)
                     ..(c.track.segments[k].i_last_tp - 1) :
                \E a \in c.track.segments[k].i_first_tp..(j - 1) :
                    \E b \in (j + 1)..c.track.segments[k].i_last_tp :
                        Detour(c.track.trackpoints, a, j, b) > c.c_t

\* A segment of the zipped Track with a kept point that is a detour of at
\* most c_t between its kept neighbours, the segment having lost points.
C4_Witness ==
    /\ Finished
    /\ Len(zipped.trackpoints) < Len(compressed.trackpoints)
    /\ \E k \in 1..Len(zipped.segments) :
          \E j \in (zipped.segments[k].i_first_tp + 1)
                   ..(zipped.segments[k].i_last_tp - 1) :
              Detour(zipped.trackpoints, j - 1, j, j + 1)
                  <= net_dist * ZippedRatio

\* The indices _compress_section keeps when run again, with the same c_t,
\* over the points emitted for segment k.
SecondPass(c, k) ==
    LET seg == c.track.segments[k]
        c_l == compress_section(c.track.trackpoints, seg.i_first_tp,
                                seg.i_last_tp, c.c_t,
                                <<seg.i_first_tp, seg.i_last_tp>>)
    IN  {c_l[j] : j \in 1..Len(c_l)}

\* C5 as claimed: the second pass keeps every point of the first.
C5_Idempotent ==
    Finished =>
        \A c \in CompressedTracks : \A k \in 1..Len(c.track.segments) :
            SecondPass(c, k) = c.track.segments[k].i_first_tp
                               ..c.track.segments[k].i_last_tp

----------------------------------------------------------------------------
(* Track._import_file on raw traces with still points.                     *)

MaxRawPoints == 7

\* One fix a minute: no movement, 200 m north, 200 m east.
StillMoves == {Move(0, 0, 60, 0), Move(200, 0, 60, 0), Move(0, 200, 60, 0)}

InitClean ==
    InitTrack(TracesUpTo(MaxRawPoints, StillMoves), {"run"}, {<<>>}, {<<>>})

NextClean == ImportFile

SpecClean == InitClean /\ [][NextClean]_vars

Cleaned == pc = "suggest"

SamePlace(k) == is_same_lat_lon(trackpoints[k], trackpoints[k + 1])

\* C2 as claimed: after _eliminate_still_points no two adjacent points share
\* (lat, lon), unless the whole output is two points.
C2_NoAdjacentDuplicates ==
    Cleaned =>
        \/ Len(trackpoints) = 2
        \/ \A k \in 1..(Len(trackpoints) - 1) : ~SamePlace(k)

\* C2 amended: after _eliminate_still_points no three consecutive points
\* share (lat, lon), and neither the first two nor the last two points do.
C2_NoStillRuns ==
    Cleaned =>
        /\ \A k \in 1..(Len(trackpoints) - 2) : ~(SamePlace(k) /\ SamePlace(k + 1))
        /\ Len(trackpoints) >= 2 =>
              /\ ~SamePlace(1)
              /\ ~SamePlace(Len(trackpoints) - 1)

\* A cleaned trace that lost points (a gap of more than a minute) and still
\* holds a pair of fixes at one place.
C2_Witness ==
    /\ Cleaned
    /\ \E k \in 1..(Len(trackpoints) - 1) : SamePlace(k)
    /\ \E k \in 1..(Len(trackpoints) - 1) :
          seconds(trackpoints[k + 1], trackpoints[k]) > 60

----------------------------------------------------------------------------
(* Segment.guess_activity on dictionaries as Segment.as_dict makes them.   *)

\* Speeds in half km/h around every limit of the rules and of the table.
GuessSpeeds ==
    {[num |-> n, den |-> 2] :
        n \in {0, 1, 2, 10, 15, 16, 17, 20, 40, 41, 50, 60, 90, 91, 100, 101,
               180, 181, 190, 200, 400, 401}}

\* Distances in metres around the 2 km and 3 km limits.
GuessDistances == {1500, 2000, 2001, 3000, 3001, 4000}

GuessInputs ==
    {[activity_id |-> a, speed |-> v, distance |-> d, new_activity |-> None,
      reason |-> NoReason] :
        a \in DOMAIN ActivityTable, v \in GuessSpeeds, d \in GuessDistances}

InitGuess ==
    /\ pc = "guess"
    /\ seg_dict \in GuessInputs
    /\ NewTrack({<<>>}, {"run"}, {<<>>}, {<<>>})

\* self.guess_activity(seg_dict), called on a fresh dictionary and once more
\* on the dictionary it has filled in.
GuessActivity ==
    /\ pc \in {"guess", "guessed"}
    /\ seg_dict' = guess_activity(activities, seg_dict)
    /\ pc' = IF pc = "guess" THEN "guessed" ELSE "done"
    /\ UNCHANGED <<trackpoints, activity_id, segments, next_id, userbug>>
    /\ UNCHANGED <<detector_vars, table_vars, result_vars>>

NextGuess == GuessActivity

SpecGuess == InitGuess /\ [][NextGuess]_vars

Guessed == pc \in {"guessed", "done"}

\* speed > k km/h and speed < k km/h of the dictionary
Faster(k) == seg_dict.speed.num > k * seg_dict.speed.den
Slower(k) == seg_dict.speed.num < k * seg_dict.speed.den

ProfileMin == ParseNumber(<<Zero>> \o activities[seg_dict.activity_id].min_speed)
ProfileMax == ParseNumber(<<Zero>> \o activities[seg_dict.activity_id].max_speed)

RuleFly == Faster(200)
RuleCar == ~RuleFly /\ (Faster(90) \/ (Faster(50) /\ seg_dict.distance > 2000))
RuleSlow == ~RuleFly /\ ~RuleCar /\ Slower(ProfileMin)
RuleFast == /\ ~RuleFly /\ ~RuleCar /\ ~RuleSlow
            /\ Faster(ProfileMax) /\ seg_dict.distance > 3000

\* An alternative from the table, after "to cycle at speed > 20 becomes car".
Substituted(alt) ==
    IF alt # seg_dict.activity_id /\ alt = "cycle" /\ Faster(20)
    THEN "car" ELSE alt

\* C7: guess_activity follows the rule table in priority order: speed > 200
\* gives fly; else speed > 90, or speed > 50 with distance > 2 km, gives car;
\* else speed under the profile's minimum gives its too-slow alternative;
\* else speed over the profile's maximum with distance > 3 km gives its
\* too-fast alternative; a substitution to cycle at speed > 20 becomes car;
\* otherwise the activity is unchanged; 95 km/h over 4 km is always car.
C7_RuleTable ==
    Guessed =>
        /\ RuleFly => seg_dict.new_activity = "fly"
        /\ RuleCar => seg_dict.new_activity = "car"
        /\ RuleSlow => seg_dict.new_activity =
               Substituted(activities[seg_dict.activity_id].alt_slow)
        /\ RuleFast => seg_dict.new_activity =
               Substituted(activities[seg_dict.activity_id].alt_fast)
        /\ ~(RuleFly \/ RuleCar \/ RuleSlow \/ RuleFast)
               => seg_dict.new_activity = seg_dict.activity_id
        /\ (seg_dict.speed.num = 95 * seg_dict.speed.den
               /\ seg_dict.distance = 4000) => seg_dict.new_activity = "car"

\* A car segment at 20.5 km/h: too slow for a car, the alternative cycle is
\* over 20 km/h and becomes car again.
C7_Witness ==
    /\ Guessed
    /\ seg_dict.activity_id = "car"
    /\ seg_dict.speed = [num |-> 41, den |-> 2]
    /\ seg_dict.new_activity = "car"
    /\ seg_dict.reason.over20

\* C8: a call of guess_activity on a dictionary that an earlier call has
\* filled in (same activity_id, speed, distance) leaves the dictionary as it
\* is, and no call changes the activity table or the dictionary's
\* activity_id, speed and distance.
C8_Pure ==
    [][GuessActivity =>
          /\ pc = "guessed" => seg_dict' = seg_dict
          /\ activities' = activities
          /\ seg_dict'.activity_id = seg_dict.activity_id
          /\ seg_dict'.speed = seg_dict.speed
          /\ seg_dict'.distance = seg_dict.distance]_vars

\* The second call has run on a dictionary whose first call substituted
\* the activity.
C8_Witness ==
    /\ pc = "done"
    /\ seg_dict.new_activity # seg_dict.activity_id
    /\ seg_dict.reason # NoReason

----------------------------------------------------------------------------
(* Track.__init__ with rows in ge_time_metadata.csv, for                   *)
(* Segment.adjust_activity.                                                *)

MaxAdjustPoints == 6

\* One fix a minute: a running pace and jitter.
AdjustMoves == {Move(200, 0, 60, 0), Move(5, 0, 60, 0)}

\* "12:02:00" and "12:02"
HmsText(h, m, sec) ==
    TwoDigits(h) \o <<Colon>> \o TwoDigits(m) \o <<Colon>> \o TwoDigits(sec)
HmText(h, m) == TwoDigits(h) \o <<Colon>> \o TwoDigits(m)

\* "2014-07-01", the day of the traces, and the day after
DayText(d) == <<50, 48, 49, 52, Minus, 48, 55, Minus>> \o TwoDigits(d)

TimeRow(date, time, act) == [date |-> date, time |-> time, activity_id |-> act]

\* Rows of ge_time_metadata.csv: exact times, intervals with and without
\* bounds, another day, and a time without "-".
TimeRows ==
    {TimeRow(DayText(1), HmText(12, 1), "lift"),
     TimeRow(DayText(1), HmText(12, 2), "fly"),
     TimeRow(DayText(1), HmsText(12, 1, 0) \o <<Minus>> \o HmsText(12, 2, 30),
             "fly"),
     TimeRow(DayText(1), HmsText(12, 3, 0) \o <<Minus>> \o HmsText(12, 5, 0),
             "lift"),
     TimeRow(DayText(1), <<Minus>> \o HmsText(12, 1, 30), "fly"),
     TimeRow(DayText(1), HmsText(12, 4, 0) \o <<Minus>>, "lift"),
     TimeRow(DayText(2), HmsText(12, 1, 0) \o <<Minus>> \o HmsText(12, 3, 0),
             "fly"),
     TimeRow(DayText(1), HmsText(12, 1, 0), "lift")}

\* Tables of at most two rows.
TimeTables ==
    {<<>>} \cup {<<r>> : r \in TimeRows}
           \cup {<<r, q>> : r \in TimeRows, q \in TimeRows}

InitAdjust ==
    InitTrack(TracesUpTo(MaxAdjustPoints, AdjustMoves), {"run"}, TimeTables,
              {<<>>})

SpecAdjust == InitAdjust /\ [][Next]_vars

\* Seconds after midnight of "HH:MM" or "HH:MM:SS".
ClockSeconds(t) ==
    3600 * ParseNumber(SubSeq(t, 1, 2)) + 60 * ParseNumber(SubSeq(t, 4, 5))
        + (IF Len(t) >= 8 THEN ParseNumber(SubSeq(t, 7, 8)) ELSE 0)

Dashes(t) == {i \in 1..Len(t) : t[i] = Minus}

\* The bounds of an interval row in seconds, an empty bound open-ended.
RowFrom(t) ==
    LET i == CHOOSE i \in Dashes(t) : TRUE
    IN  IF i = 1 THEN 0 ELSE ClockSeconds(SubSeq(t, 1, i - 1))
RowTo(t) ==
    LET i == CHOOSE i \in Dashes(t) : TRUE
    IN  IF i = Len(t) THEN DaySeconds - 1
        ELSE ClockSeconds(SubSeq(t, i + 1, Len(t)))

StartOf(seg) == seg.first.datetime % DaySeconds
EndOf(seg) == seg.last.datetime % DaySeconds

\* The claim's reading: the row's time contains the segment's start time.
ContainsStart(seg, row) ==
    /\ row.date = date_yymd(seg.first)
    /\ IF Len(row.time) = 5 THEN ClockSeconds(row.time) = StartOf(seg)
       ELSE /\ Cardinality(Dashes(row.time)) = 1
            /\ RowFrom(row.time) <= StartOf(seg)
            /\ \/ StartOf(seg) < RowTo(row.time)
               \/ row.time[Len(row.time)] = Minus

\* The amended reading: the row's time meets the segment's time span.
MeetsSpan(seg, row) ==
    /\ row.date = date_yymd(seg.first)
    /\ IF Len(row.time) = 5
       THEN /\ StartOf(seg) < ClockSeconds(row.time)
            /\ ClockSeconds(row.time) <= EndOf(seg)
       ELSE /\ Cardinality(Dashes(row.time)) = 1
            /\ RowFrom(row.time) <= EndOf(seg)
            /\ StartOf(seg) <= RowTo(row.time)

\* The heuristics never make a running pace "fly" or "lift": a segment
\* with one of these activities was set by a row.
Overridden(seg) == seg.activity_id \in {"fly", "lift"}

MeetingRows(seg) ==
    {k \in 1..Len(time_metadata) : MeetsSpan(seg, time_metadata[k])}

Smallest(S) == CHOOSE k \in S : \A j \in S : k <= j
Largest(S) == CHOOSE k \in S : \A j \in S : k >= j

\* C9 as claimed: of several matching rows the first in table order sets
\* the segment's activity_id.
C9_FirstRowWins ==
    Finished =>
        \A n \in 1..Len(segments) :
            MeetingRows(segments[n]) # {} =>
                segments[n].activity_id =
                    time_metadata[Smallest(MeetingRows(segments[n]))].activity_id

\* C9 amended: of several matching rows the last in table order sets the
\* segment's activity_id.
C9_LastRowWins ==
    Finished =>
        \A n \in 1..Len(segments) :
            MeetingRows(segments[n]) # {} =>
                segments[n].activity_id =
                    time_metadata[Largest(MeetingRows(segments[n]))].activity_id

\* A finished Track with a segment that two rows of different activities
\* match.
C9_Witness ==
    /\ Finished
    /\ Len(time_metadata) = 2
    /\ time_metadata[1].activity_id # time_metadata[2].activity_id
    /\ \E n \in 1..Len(segments) : MeetingRows(segments[n]) = {1, 2}

\* C10 as claimed: a segment is overridden exactly when some row has its
\* date and a time that contains the segment's start time (an exact time
\* equal to it, an interval [from, to) around it, an empty bound open).
C10_AppliesAtStart ==
    Finished =>
        \A n \in 1..Len(segments) :
            Overridden(segments[n]) <=>
                \E k \in 1..Len(time_metadata) :
                    ContainsStart(segments[n], time_metadata[k])

\* C10 amended: a segment is overridden exactly when some row has its date
\* and a time that meets the segment's span from its first to its last
\* trackpoint: an exact time HH:MM after the start and not after the end,
\* an interval from-to with from not after the end and to not before the
\* start (an empty bound open); a time without "-" never applies.
C10_AppliesOnSpan ==
    Finished =>
        \A n \in 1..Len(segments) :
            Overridden(segments[n]) <=> MeetingRows(segments[n]) # {}

\* A segment overridden by an interval row that begins after the segment's
\* start.
C10_Witness ==
    /\ Finished
    /\ Len(time_metadata) = 1
    /\ Len(time_metadata[1].time) > 8
    /\ \E n \in 1..Len(segments) :
          /\ Overridden(segments[n])
          /\ ~ContainsStart(segments[n], time_metadata[1])

----------------------------------------------------------------------------
(* Track.__init__ for a downhill track: altitude profiles, extremes and    *)
(* _split_track_at_peaks.                                                   *)

MaxSkiPoints == 7

\* One fix a minute, 150 m further along the slope: 40 m up, 40 m down; and
\* a rest of a minute on the spot.
SkiMoves == {Move(150, 0, 60, 40), Move(150, 0, 60, -40), Move(5, 0, 60, 0)}

\* A ge_forced_breaks.csv with one row, a gate 300 m up the slope.
SkiBreaks == <<[text |-> "gate", lat |-> 300, lon |-> 0]>>

InitSki ==
    InitTrack(TracesUpTo(MaxSkiPoints, SkiMoves), {"downhill"}, {<<>>},
              {<<>>, SkiBreaks})

SpecSki == InitSki /\ [][Next]_vars

Climbs(i, j) ==
    \A k \in i..(j - 1) : At(trackpoints, k).alt < At(trackpoints, k + 1).alt

Descends(i, j) ==
    \A k \in i..(j - 1) : At(trackpoints, k).alt > At(trackpoints, k + 1).alt

\* The altitude over the segment's points strictly climbs for more than 60 s
\* up to point a and strictly descends from there.
SingleApex(seg, a) ==
    /\ seg.i_first_tp < a
    /\ a < seg.i_last_tp
    /\ Climbs(seg.i_first_tp, a)
    /\ Descends(a, seg.i_last_tp)
    /\ seconds(At(trackpoints, a), At(trackpoints, seg.i_first_tp)) > 60

\* The segments whose extremes parse_segment_for_peaks computed over the
\* index range they have now (recalc keeps the extremes of the old range).
Parsed == {k \in 1..Len(segments) : segments[k].type # "recalc"}

\* C11 as claimed: a segment with a single apex has exactly one extremum, a
\* peak whose i_tp is the index of the apex, the point of maximum altitude.
C11_PeakAtApex ==
    \A k \in Parsed : \A a \in 0..(Len(trackpoints) - 1) :
        SingleApex(segments[k], a) =>
            /\ Len(segments[k].extremes) = 1
            /\ segments[k].extremes[1].type = "peak"
            /\ segments[k].extremes[1].i_tp = a

\* What the code yields on a single apex: one peak, indexed at the first
\* descending point, the one after the apex.
C11_PeakAfterApex ==
    \A k \in Parsed : \A a \in 0..(Len(trackpoints) - 1) :
        SingleApex(segments[k], a) =>
            /\ Len(segments[k].extremes) = 1
            /\ segments[k].extremes[1].type = "peak"
            /\ segments[k].extremes[1].i_tp = a + 1

\* Neither bound of eliminate_too_short_segments is violated: the duration
\* is at least the track activity's time_window_s, the distance at least
\* 0.1 km.
LongEnough(seg) ==
    /\ seg.duration_s >= time_window_s(activities, activity_id)
    /\ seg.distance >= 100

\* C19: eliminate_too_short_segments removes exactly the segments that are
\* below time_window_s in duration or below 0.1 km in distance and keeps
\* the others in their order, the halves made by transit and peak splitting
\* included; in a finished Track no segment is below either bound.
C19_TooShortEliminated ==
    [][/\ pc = "eliminate" => segments' = SelectSeq(segments, LongEnough)
       /\ pc' = "done" => \A k \in 1..Len(segments') :
                              LongEnough(segments'[k])]_vars

\* A finished Track split at a transit and at a peak: of the Segments made
\* before compression some were eliminated, and a half made by a split is
\* among the ones kept.
C19_Witness ==
    /\ Finished
    /\ forced_breaks # <<>>
    /\ next_id - 1 - 2 * Len(segments) > Len(segments)
    /\ Len(segments) >= 2
    /\ \E k \in 1..Len(segments) : segments[k].type = "split"
    /\ \E k \in 1..Len(segments) : segments[k].activity_id = "lift"

----------------------------------------------------------------------------
(* Track.__init__ on traces with rests, for the detector of                *)
(* _suggest_segments.                                                       *)

MaxDetectPoints == 6

\* A minute on the spot, a minute's run, and half-minute fixes: a shuffle
\* of 5 m and a run of 100 m.
DetectMoves ==
    {Move(0, 0, 60, 0), Move(200, 0, 60, 0), Move(5, 0, 30, 0),
     Move(100, 0, 30, 0)}

InitDetect ==
    InitTrack(TracesUpTo(MaxDetectPoints, DetectMoves), {"run"}, {<<>>},
              {<<>>})

SpecDetect == InitDetect /\ [][Next]_vars

\* The file holds three fixes of one position (their timestamps differ by
\* construction).
Stationary ==
    /\ Len(infile) = 3
    /\ \A k \in 2..3 : is_same_lat_lon(infile[k], infile[1])

Imported == pc # "import"
Detected == pc \notin {"import", "suggest", "detect"}

\* C12 as claimed: a trace of three fixes of one position is cleaned to one
\* point, segment detection yields no segment, and a warning is recorded in
\* userbug.
C12_StationaryWarned ==
    Stationary =>
        /\ Imported => Len(trackpoints) = 1
        /\ Detected => segments = <<>> /\ userbug # <<>>

\* C12 amended: a trace of three fixes of one position is cleaned to one
\* point and segment detection yields no segment; nothing is recorded in
\* userbug, up to the end of Track.__init__.
C12_StationarySilent ==
    Stationary =>
        /\ Imported => Len(trackpoints) = 1
        /\ Detected => segments = <<>>
        /\ userbug = <<>>

\* Track.__init__ has finished on a three-fix stationary trace.
C12_Witness ==
    /\ Stationary
    /\ Finished
    /\ Len(trackpoints) = 1
    /\ segments = <<>>

\* C15: while _suggest_segments walks the trackpoints the mode only moves
\* before_first_start -> movement_happens -> break_time -> movement_happens
\* -> ...: before_first_start is never re-entered, break_time is entered
\* only from movement_happens, and a Segment is appended exactly in the pass
\* that takes the mode from movement_happens to break_time, plus at most
\* one at the end of the input.
C15_ModeOrder ==
    [][pc = "detect" =>
          /\ mode' = "before_first_start" => mode = "before_first_start"
          /\ mode' = "break_time" /\ mode # "break_time"
                => mode = "movement_happens"
          /\ mode' = "movement_happens" /\ mode # "movement_happens"
                => mode \in {"before_first_start", "break_time"}
          /\ DetectPoint =>
                IF mode = "movement_happens" /\ mode' = "break_time"
                THEN Len(segments') = Len(segments) + 1
                ELSE segments' = segments
          /\ EndOfInput =>
                /\ mode' = mode
                /\ Len(segments') \in {Len(segments), Len(segments) + 1}]_vars

\* The input is exhausted after the mode went through before_first_start,
\* movement_happens, break_time and movement_happens again: one segment was
\* closed by a stop, one by the end of the input.
C15_Witness ==
    /\ pc = "merge"
    /\ mode = "movement_happens"
    /\ Len(segments) = 2
    /\ segments[1].type = "has_stopped"
    /\ segments[2].type = "abrupt_end"

\* A pass of the loop is about to run; Window is distance_list as the pass
\* has it after the front-trimming step.
InPass == pc = "detect" /\ i_tp < Len(trackpoints)

Window ==
    appended_and_trimmed(trackpoints, activities, activity_id, i_tp,
                         distance_list, dist_from_start)

WindowLimit == time_window_s(activities, suggest_profile(activities, activity_id))

\* C16 as claimed: after the front-trimming step for each new point the
\* buffer spans at most time_window_s from its first to its last entry.
C16_SpansAtMostWindow ==
    InPass => Window[Len(Window)].s - Window[1].s <= WindowLimit

\* C16 amended: after the front-trimming step every entry but the first is
\* at most time_window_s older than the last entry; only the first entry
\* can be older.
C16_OneEntryOlder ==
    InPass =>
        \A k \in 2..Len(Window) :
            Window[Len(Window)].s - Window[k].s <= WindowLimit

\* The trimming of this pass drops entries and still leaves a buffer that
\* spans more than time_window_s.
C16_Witness ==
    /\ InPass
    /\ Len(Window) < Len(distance_list) + 1
    /\ Window[Len(Window)].s - Window[1].s > WindowLimit

\* The step that follows the last pass of the loop.
InputExhausted == pc = "detect" /\ i_tp = Len(trackpoints)

\* C17: when the input is exhausted in movement_happens exactly one segment
\* is appended, and its i_last_tp is the index of the last trackpoint; when
\* it is exhausted in break_time or before_first_start nothing is appended.
C17_EndOfInput ==
    [][InputExhausted =>
          IF mode = "movement_happens"
          THEN /\ Len(segments') = Len(segments) + 1
               /\ SubSeq(segments', 1, Len(segments)) = segments
               /\ segments'[Len(segments')].i_last_tp = Len(trackpoints) - 1
          ELSE segments' = segments]_vars

\* The input ran out during a movement: the trailing segment reaches from
\* the start of that movement to the last trackpoint.
C17_Witness ==
    /\ pc = "merge"
    /\ mode = "movement_happens"
    /\ segments[Len(segments)].type = "abrupt_end"
    /\ segments[Len(segments)].i_first_tp = i_segment_first_tp
    /\ segments[Len(segments)].i_first_tp < Len(trackpoints) - 1
    /\ segments[Len(segments)].i_last_tp = Len(trackpoints) - 1

----------------------------------------------------------------------------
(* Track.__init__ for a hike with rests of two to several minutes, for the *)
(* merging post-pass of _suggest_segments.                                  *)

MaxMergePoints == 10

\* One fix a minute: a walk of 200 m, or a drift of 1 m (no hop above
\* final_hop_m).
MergeMoves == {Move(200, 0, 60, 0), Move(1, 0, 60, 0)}

InitMerge ==
    InitTrack(TracesUpTo(MaxMergePoints, MergeMoves), {"hike"}, {<<>>},
              {<<>>})

SpecMerge == InitMerge /\ [][Next]_vars

MinimumBreak ==
    minimum_break_s(activities, suggest_profile(activities, activity_id))

\* Seconds from the last point of segs[k] to the first point of segs[k + 1].
BreakAfter(segs, k) ==
    seconds(At(trackpoints, segs[k].i_last_tp),
            At(trackpoints, segs[k + 1].i_first_tp))

\* The detected segments that start a merged segment: the first one and
\* every one that follows a break of at least minimum_break_s.
Starts == {1} \cup {a \in 2..Len(segments) :
                      BreakAfter(segments, a - 1) >= MinimumBreak}

\* The index of the k-th smallest element of a set of numbers.
Nth(S, k) == CHOOSE a \in S : Cardinality({b \in S : b < a}) = k - 1

\* The last detected segment of the group that starts with segment a.
GroupEnd(a) ==
    IF \E b \in Starts : b > a
    THEN (CHOOSE b \in Starts : b > a /\ \A c \in Starts : c > a => b <= c) - 1
    ELSE Len(segments)

\* C18: after the merging post-pass no two adjacent segments are separated
\* by a break shorter than minimum_break_s, and the merged list is the
\* detected list with every run of segments separated by shorter breaks
\* replaced by its first segment, whose i_last_tp is that of the last
\* segment of the run, however long the run.
C18_ShortBreaksMerged ==
    [][pc = "merge" /\ segments # <<>> =>
          /\ \A k \in 1..(Len(segments') - 1) :
                BreakAfter(segments', k) >= MinimumBreak
          /\ Len(segments') = Cardinality(Starts)
          /\ \A k \in 1..Len(segments') :
                /\ segments'[k].id = segments[Nth(Starts, k)].id
                /\ segments'[k].i_first_tp =
                       segments[Nth(Starts, k)].i_first_tp
                /\ segments'[k].i_last_tp =
                       segments[GroupEnd(Nth(Starts, k))].i_last_tp]_vars

\* Three segments were detected and two short breaks in a row merged them
\* into one.
C18_Witness ==
    /\ pc = "transits"
    /\ next_id = 4
    /\ Len(segments) = 1
    /\ segments[1].type = "recalc"

----------------------------------------------------------------------------
(* The previous/next links of the Track and of its compressed Track.       *)

\* The links of a Track's segments follow time: the next segment of s names
\* s as its previous segment and does not begin before s ends; the segment
\* that begins first has no previous segment, the one that ends last no
\* next segment.
LinkedInTime(tps, segs) ==
    /\ \A j \in 1..Len(segs) :
          segs[j].next_segment # NoSegment =>
              \E k \in 1..Len(segs) :
                  /\ segs[k].id = segs[j].next_segment
                  /\ segs[k].previous_segment = segs[j].id
                  /\ At(tps, segs[k].i_first_tp).datetime
                         >= At(tps, segs[j].i_last_tp).datetime
    /\ \A j \in 1..Len(segs) :
          (\A k \in 1..Len(segs) : segs[j].i_first_tp <= segs[k].i_first_tp)
              => segs[j].previous_segment = NoSegment
    /\ \A j \in 1..Len(segs) :
          (\A k \in 1..Len(segs) : segs[j].i_last_tp >= segs[k].i_last_tp)
              => segs[j].next_segment = NoSegment

\* C20 as claimed: in a finished Track and in its compressed Track the
\* previous/next links follow time.
C20_LinksInTime ==
    Finished =>
        /\ LinkedInTime(trackpoints, segments)
        /\ LinkedInTime(compressed.trackpoints, compressed.segments)

----------------------------------------------------------------------------
(* Track.distance_along_path called with any pair of indices on a Track    *)
(* holding an imported trace.                                               *)

MaxPathPoints == 3

\* The indices tried: from below -count to above count - 1.
PathIndices == (0 - MaxPathPoints - 2)..(MaxPathPoints + 1)

InitPath ==
    /\ pc = "call"
    /\ seg_dict = NoSegDict
    /\ trackpoints \in TracesUpTo(MaxPathPoints, RunMoves)
    /\ activity_id = "run"
    /\ segments = <<>>
    /\ next_id = 1
    /\ userbug = <<>>
    /\ i_tp = 0
    /\ mode = "before_first_start"
    /\ distance_list = <<>>
    /\ dist_from_start = 0
    /\ i_segment_first_tp = 0
    /\ break_tp = NoPoint
    /\ net_dist = 0
    /\ net_duration_s = 0
    /\ compressed = EmptyTrack
    /\ zipped = EmptyTrack
    /\ activities = ActivityTable
    /\ time_metadata = <<>>
    /\ forced_breaks = <<>>
    /\ infile = trackpoints
    /\ frames = <<>>
    /\ call \in [i_from : PathIndices, i_to : PathIndices, returned : {None}]

\* track.distance_along_path(i_from, i_to): it returns a distance, or the
\* IndexError of a list access leaves it.
DistanceAlongPath ==
    /\ pc = "call"
    /\ IF distance_along_path_raises(trackpoints, call.i_from, call.i_to)
       THEN /\ call' = [call EXCEPT !.returned = "IndexError"]
            /\ pc' = "raised"
            /\ UNCHANGED userbug
       ELSE /\ call' = [call EXCEPT !.returned =
                           distance_along_path(trackpoints, call.i_from,
                                               call.i_to)]
            /\ pc' = "returned"
            /\ userbug' = userbug \o distance_along_path_userbug(
                                         trackpoints, call.i_from, call.i_to)
    /\ UNCHANGED <<trackpoints, activity_id, segments, next_id, seg_dict>>
    /\ UNCHANGED <<detector_vars, result_vars>>
    /\ UNCHANGED <<activities, time_metadata, forced_breaks, infile, frames>>

NextPath == DistanceAlongPath

SpecPath == InitPath /\ [][NextPath]_vars

Called == pc \in {"returned", "raised"}

OutOfRange(i) == i \notin 0..(Len(infile) - 1)

AboveRange(i) == i > Len(infile) - 1

\* C13 as claimed: with i_from or i_to outside 0..count-1 the call does not
\* raise; it records a warning in userbug and returns 0, and the track is as
\* before.
C13_OutOfRangeWarned ==
    Called /\ (OutOfRange(call.i_from) \/ OutOfRange(call.i_to)) =>
        /\ pc = "returned"
        /\ call.returned = 0
        /\ userbug # <<>>
        /\ trackpoints = infile

\* What the three tests of the code do cover: an index above count-1, and
\* the empty track.
C13_AboveRangeWarned ==
    Called /\ (AboveRange(call.i_from) \/ AboveRange(call.i_to)) =>
        /\ pc = "returned"
        /\ call.returned = 0
        /\ Len(userbug) = 1
        /\ trackpoints = infile

----------------------------------------------------------------------------
(* Track.__init__ for an activity id with and without row in               *)
(* ge_activities.csv.                                                       *)

MaxProfilePoints == 5

InitProfile ==
    InitTrack(TracesUpTo(MaxProfilePoints, RunMoves), {"run", "sail"},
              {<<>>}, {<<>>})

SpecProfile == InitProfile /\ [][Next]_vars

Failed == pc = "error"

\* C14 as claimed: Track.__init__ for an activity id without row in the
\* activity table never fails.
C14_NeverFails ==
    invalid_activity(activities, activity_id) => ~Failed

\* What the code does: _suggest_segments runs on the thresholds of the row
\* "run", but no Track of an activity without row whose file holds a
\* trackpoint gets past eliminate_too_short_segments.
C14_FailsByEliminate ==
    invalid_activity(activities, activity_id) /\ infile # <<>> =>
        pc \notin {"pointers", "net", "adjust", "sort", "compress", "zip",
                   "done"}

----------------------------------------------------------------------------
(* Segment.parse_segment_for_peaks called on a range of points of an       *)
(* altitude profile.                                                        *)

MaxPeakPoints == 7

\* Fixes 150 m apart: a minute later 40 m up, 40 m down or level, or half a
\* minute later 40 m up.
PeakMoves == {Move(150, 0, 60, 40), Move(150, 0, 60, -40), Move(150, 0, 60, 0),
              Move(150, 0, 30, 40)}

\* A Track holding an imported trace, and a method about to be called on it
\* with the arguments in call.
InitCall(traces, calls) ==
    /\ pc = "call"
    /\ seg_dict = NoSegDict
    /\ TrackFields(traces, {"downhill"}, {<<>>}, {<<>>})
    /\ call \in calls

\* Algorithm of a Segment over trackpoints i_from..i_to, i_from being the
\* first point or the second, i_to the last.
InitPeaks ==
    /\ InitCall(TracesUpTo(MaxPeakPoints, PeakMoves) \ {<<>>},
                [i_from : 0..1, i_to : 0..(MaxPeakPoints + 1),
                 returned : {None}])
    /\ call.i_to = Len(trackpoints) - 1
    /\ call.i_from <= call.i_to

\* segment.parse_segment_for_peaks(): extremes, hm_up and hm_down of the
\* segment are assigned.
ParseSegmentForPeaks ==
    /\ pc = "call"
    /\ call' = [call EXCEPT !.returned =
                    parse_segment_for_peaks(trackpoints, call.i_from,
                                            call.i_to)]
    /\ pc' = "returned"
    /\ UNCHANGED <<trackpoints, activity_id, segments, next_id, userbug,
                   seg_dict>>
    /\ UNCHANGED <<detector_vars, result_vars>>
    /\ UNCHANGED <<activities, time_metadata, forced_breaks, infile, frames>>

NextPeaks == ParseSegmentForPeaks

SpecPeaks == InitPeaks /\ [][NextPeaks]_vars

PeaksParsed == pc = "returned"

\* The extrema in the order the loop over the points records them, before
\* the deletion pass.
Recorded ==
    peaks_loop(trackpoints, call.i_from + 1, call.i_to,
               [prev_tp |-> At(trackpoints, call.i_from),
                prev_alt |-> At(trackpoints, call.i_from).alt,
                prev_going_up |-> FALSE, prev_going_down |-> FALSE,
                going_up_counter |-> 0, going_down_counter |-> 0,
                extremes |-> <<>>, hm_up |-> 0, hm_down |-> 0]).extremes

\* The recorded extremum k closes a run of extrema of one type.
LastOfRun(rec, k) == k = Len(rec) \/ rec[k + 1].type # rec[k].type

\* C21: after parse_segment_for_peaks the point indices of segment.extremes
\* are strictly increasing, no two consecutive extremes have the same type,
\* and the extremes are those recorded extrema that close a run of recorded
\* extrema of one type, in their order.
C21_ExtremesAlternate ==
    PeaksParsed =>
        LET ex == call.returned.extremes
        IN  /\ \A k \in 1..(Len(ex) - 1) :
                   /\ ex[k].i_tp < ex[k + 1].i_tp
                   /\ ex[k].type # ex[k + 1].type
            /\ \A k \in 1..Len(ex) : ex[k].type \in {"peak", "bottom"}
            /\ ex = SelectSeq(Recorded,
                              LAMBDA e : \E k \in 1..Len(Recorded) :
                                  /\ Recorded[k] = e
                                  /\ LastOfRun(Recorded, k))

\* Two peaks with no bottom between them were recorded, and the deletion
\* pass has left the later one.
C21_Witness ==
    /\ PeaksParsed
    /\ Len(Recorded) >= 2
    /\ Recorded[1].type = "peak"
    /\ Recorded[2].type = "peak"
    /\ Len(call.returned.extremes) = 1
    /\ call.returned.extremes[1] = Recorded[2]

\* The altitude gained on the step to point k.
Delta(k) == At(trackpoints, k).alt - At(trackpoints, k - 1).alt

Steps == (call.i_from + 1)..call.i_to

\* The first steps of the stretch before step k in which the altitude moved
\* in direction sgn (1 up, -1 down) and at no step against it.
Run(k, sgn) ==
    {j \in Steps : /\ j < k
                   /\ sgn * Delta(j) > 0
                   /\ \A l \in j..(k - 1) : sgn * Delta(l) >= 0}

\* The seconds that run took, from its first step to the point before k.
RunSeconds(k, sgn) ==
    IF Run(k, sgn) = {} THEN 0
    ELSE seconds(At(trackpoints, k - 1),
                 At(trackpoints, Smallest(Run(k, sgn)) - 1))

\* A run of more than 60 s in direction sgn is followed, on step k, by a
\* move against it.
Reversal(k, sgn) == sgn * Delta(k) < 0 /\ RunSeconds(k, sgn) > 60

Direction(type) == IF type = "peak" THEN 1 ELSE 0 - 1

\* An extremum of a type is recorded on step k exactly when a run of more
\* than 60 s towards it is reversed there, and the counter recorded with it
\* is the time of that run.
ReversalsRecorded ==
    /\ \A k \in Steps : \A type \in {"peak", "bottom"} :
           (\E n \in 1..Len(Recorded) : /\ Recorded[n].i_tp = k
                                         /\ Recorded[n].type = type)
               <=> Reversal(k, Direction(type))
    /\ \A n \in 1..Len(Recorded) :
           Recorded[n].counter =
               RunSeconds(Recorded[n].i_tp, Direction(Recorded[n].type))

\* C22 as claimed: a peak is recorded exactly when a climbing run of more
\* than 60 s is followed by a descent, a bottom exactly when a descending
\* run of more than 60 s is followed by a climb, the time of the run being
\* counted from the last flip of sign; level steps may occur in the profile.
C22_RunsRecorded == PeaksParsed => ReversalsRecorded

NoLevelStep == \A k \in Steps : Delta(k) # 0

\* The same holds of every profile in which the altitude changes at every
\* step.
C22_RunsRecordedOffLevel == PeaksParsed /\ NoLevelStep => ReversalsRecorded

----------------------------------------------------------------------------
(* Track._split_track_at_peaks: the statistics of the halves.               *)

\* Distance and duration of a segment are those of its index range.
LengthRecomputed(seg) ==
    /\ seg.distance = distance_along_path(trackpoints, seg.i_first_tp,
                                          seg.i_last_tp)
    /\ seg.duration_s = seconds(At(trackpoints, seg.i_first_tp),
                                At(trackpoints, seg.i_last_tp))

\* Climb, descent and extremes of a segment are those of its index range.
ClimbRecomputed(seg) ==
    LET pk == parse_segment_for_peaks(trackpoints, seg.i_first_tp,
                                      seg.i_last_tp)
    IN  /\ seg.hm_up = pk.hm_up
        /\ seg.hm_down = pk.hm_down
        /\ seg.extremes = pk.extremes

\* Segment k of the list after a step is one the step has created.
NewHalf(k) == segments'[k].id >= next_id

\* Segment k of the list after a step is one the step has shortened.
ShortenedHalf(k) ==
    \E j \in 1..Len(segments) : /\ segments[j].id = segments'[k].id
                                 /\ segments[j].i_last_tp # segments'[k].i_last_tp

SplittingAtPeaks ==
    pc = "split_peaks" /\ activity_id \in {"downhill", "snowboard"}

\* C23 as claimed: after _split_track_at_peaks every segment that results
\* from a split, the shortened original and each new one, has distance,
\* duration, hm_up, hm_down and extremes as computed over its own final
\* index range.
C23_HalvesRecomputed ==
    [][SplittingAtPeaks =>
           \A k \in 1..Len(segments') :
               NewHalf(k) \/ ShortenedHalf(k) =>
                   /\ LengthRecomputed(segments'[k])
                   /\ ClimbRecomputed(segments'[k])]_vars

\* What the code recomputes: everything for a new half (Segment.__init__),
\* distance and duration only for the shortened original (recalc).
C23_NewHalvesRecomputed ==
    [][SplittingAtPeaks =>
           \A k \in 1..Len(segments') :
               /\ NewHalf(k) => /\ LengthRecomputed(segments'[k])
                                /\ ClimbRecomputed(segments'[k])
               /\ ShortenedHalf(k) => LengthRecomputed(segments'[k])]_vars

----------------------------------------------------------------------------
(* The narrowing loop of Track._compress_section on a section with at      *)
(* least one interior point.                                                *)

MaxNarrowPoints == 6

\* The sections i_from..i_to of a trace that hold an interior point.
InitNarrow ==
    /\ InitCall(TracesUpTo(MaxNarrowPoints, ZigMoves)
                    \cup TracesUpTo(MaxNarrowPoints, RoofMoves),
                [i_from : 0..(MaxNarrowPoints + 1),
                 i_to : 0..(MaxNarrowPoints + 1), returned : {None}])
    /\ call.i_from + 2 <= call.i_to
    /\ call.i_to <= Len(trackpoints) - 1

\* "while not borders_have_converged: ..." and the choice of i_pi and d_n
\* that follows it, for the section call.i_from..call.i_to.
NarrowSection ==
    /\ pc = "call"
    /\ call' = [call EXCEPT !.returned =
                    narrow(trackpoints, call.i_from, call.i_to, call.i_from,
                           call.i_to)]
    /\ pc' = "returned"
    /\ UNCHANGED <<trackpoints, activity_id, segments, next_id, userbug,
                   seg_dict>>
    /\ UNCHANGED <<detector_vars, result_vars>>
    /\ UNCHANGED <<activities, time_metadata, forced_breaks, infile, frames>>

NextNarrow == NarrowSection

SpecNarrow == InitNarrow /\ [][NextNarrow]_vars

Narrowed == pc = "returned"

\* dist(p1, p_k) + dist(p_k, p2) for the section of the call.
Via(k) ==
    distance(At(trackpoints, call.i_from), At(trackpoints, k))
    + distance(At(trackpoints, k), At(trackpoints, call.i_to))

Interior == (call.i_from + 1)..(call.i_to - 1)

\* C24 as claimed: the index chosen by the narrowing loop is strictly
\* interior and no interior index makes a longer detour.
C24_MaximalDetour ==
    Narrowed =>
        /\ call.returned.i_pi \in Interior
        /\ \A k \in Interior : Via(k) <= Via(call.returned.i_pi)

\* What the loop ensures: the chosen index is strictly interior and d_n is
\* its detour.
C24_InteriorDetour ==
    Narrowed =>
        /\ call.returned.i_pi \in Interior
        /\ call.returned.d_n = Via(call.returned.i_pi)

----------------------------------------------------------------------------
(* Track.__init__ for a downhill track that climbs round a corner before   *)
(* it descends: _compress_track over segments of several activities.        *)

MaxMirrorPoints == 7

\* One fix a minute, 150 m further: north and 40 m up, east and 40 m up,
\* north and 40 m down.
MirrorMoves == {Move(150, 0, 60, 40), Move(0, 150, 60, 40),
                Move(150, 0, 60, -40)}

InitMirror ==
    InitTrack(TracesUpTo(MaxMirrorPoints, MirrorMoves), {"downhill"}, {<<>>},
              {<<>>})

SpecMirror == InitMirror /\ [][Next]_vars

\* The index in Track.trackpoints of a point of the trace.
IndexOf(tp) ==
    CHOOSE i \in 0..(Len(trackpoints) - 1) : At(trackpoints, i) = tp

\* Segment k of track c holds points of segment k of the Track, in
\* strictly increasing order of their index in the Track.
Subsequence(c, k) ==
    LET cseg == c.segments[k]
        range == cseg.i_first_tp..cseg.i_last_tp
    IN  /\ \A j \in range :
               \E i \in segments[k].i_first_tp..segments[k].i_last_tp :
                   At(c.trackpoints, j) = At(trackpoints, i)
        /\ \A j \in range : \A l \in range :
               j < l => IndexOf(At(c.trackpoints, j))
                            < IndexOf(At(c.trackpoints, l))

\* The index ranges of the segments of track c follow one another and
\* cover the indices of its trackpoints.
Consecutive(c) ==
    IF c.segments = <<>> THEN c.trackpoints = <<>>
    ELSE /\ c.segments[1].i_first_tp = 0
         /\ \A k \in 1..(Len(c.segments) - 1) :
                c.segments[k + 1].i_first_tp = c.segments[k].i_last_tp + 1
         /\ c.segments[Len(c.segments)].i_last_tp = Len(c.trackpoints) - 1
         /\ \A k \in 1..Len(c.segments) :
                c.segments[k].i_first_tp <= c.segments[k].i_last_tp

\* C25: a Track made by _compress_track has as many segments as the
\* original, in the same list order with the same activity ids; its k-th
\* segment holds a strictly increasing, duplicate-free subsequence of the
\* points of the k-th original segment; its segments' index ranges are
\* consecutive and cover its trackpoint array exactly once.
C25_MirrorsSegments ==
    Finished =>
        \A c \in {compressed, zipped} :
            /\ Len(c.segments) = Len(segments)
            /\ \A k \in 1..Len(segments) :
                   /\ c.segments[k].activity_id = segments[k].activity_id
                   /\ Subsequence(c, k)
            /\ Consecutive(c)

\* A finished Track of a lift and a descent, the descent sorted before the
\* lift it follows in time; the zipped lift has lost points and kept an
\* interior one.
C25_Witness ==
    /\ Finished
    /\ Len(segments) = 2
    /\ segments[1].activity_id = "downhill"
    /\ segments[2].activity_id = "lift"
    /\ segments[2].i_first_tp < segments[1].i_first_tp
    /\ zipped.segments[2].i_last_tp - zipped.segments[2].i_first_tp >= 2
    /\ zipped.segments[2].i_last_tp - zipped.segments[2].i_first_tp
           < segments[2].i_last_tp - segments[2].i_first_tp

----------------------------------------------------------------------------
(* Segment.adjust_activity as called by _adjust_segment_activities on the  *)
(* segments of a downhill track.                                            *)

\* C26: adjust_activity changes nothing of a segment but activity_id and
\* the order_activity that goes with it: index range, distance, duration,
\* hm_up, hm_down, extremes and the links to the neighbours are as before,
\* and neither the activity table nor the override tables are modified.
C26_OnlyActivity ==
    [][pc = "adjust" =>
           /\ Len(segments') = Len(segments)
           /\ \A k \in 1..Len(segments) :
                  /\ segments'[k] =
                         [segments[k] EXCEPT
                              !.activity_id = segments'[k].activity_id,
                              !.order_activity = segments'[k].order_activity]
                  /\ segments'[k].order_activity =
                         activities[segments'[k].activity_id].order
           /\ activities' = activities
           /\ time_metadata' = time_metadata
           /\ forced_breaks' = forced_breaks
           /\ trackpoints' = trackpoints]_vars

\* adjust_activity has just turned a descending segment that has a
\* successor and an extremum into a lift.
C26_Witness ==
    /\ pc = "sort"
    /\ \E k \in 1..Len(segments) :
          /\ segments[k].activity_id = "lift"
          /\ Abs(segments[k].hm_up) <= Abs(segments[k].hm_down)
          /\ segments[k].next_segment # NoSegment
          /\ segments[k].extremes # <<>>

----------------------------------------------------------------------------
(* The index ranges of the segments through the stages of Track.__init__.  *)

InTrack(i) == i \in 0..(Len(trackpoints) - 1)

\* The segment is as the detector appended it.
FromDetector(seg) == seg.type \in {"has_stopped", "abrupt_end"}

\* C27 as claimed: at every stage every segment of track.segments has
\* 0 <= i_first_tp <= i_last_tp <= count - 1, and a segment emitted by the
\* detector has i_first_tp < i_last_tp.
C27_RangesOrdered ==
    \A k \in 1..Len(segments) :
        /\ InTrack(segments[k].i_first_tp)
        /\ InTrack(segments[k].i_last_tp)
        /\ segments[k].i_first_tp <= segments[k].i_last_tp
        /\ FromDetector(segments[k]) =>
               segments[k].i_first_tp < segments[k].i_last_tp

\* What holds at every stage: both indices lie within the track, and the
\* segments a stop of the detector has closed hold at least two points.
C27_RangesInTrack ==
    \A k \in 1..Len(segments) :
        /\ InTrack(segments[k].i_first_tp)
        /\ InTrack(segments[k].i_last_tp)
        /\ segments[k].type = "has_stopped" =>
               segments[k].i_first_tp < segments[k].i_last_tp

----------------------------------------------------------------------------
(* _suggest_segments: the transitions made for one trackpoint.              *)

\* C29: one pass of the loop of _suggest_segments makes at most one change
\* of mode: the pass that starts the first segment closes none, the pass
\* that closes a segment leaves the mode at break_time with the buffer
\* emptied, and no pass ends in the exception of a scan over an emptied
\* buffer.
C29_OneTransitionPerPoint ==
    [][pc = "detect" /\ i_tp < Len(trackpoints) =>
           /\ pc' = "detect"
           /\ mode = "before_first_start" =>
                  /\ segments' = segments
                  /\ mode' \in {"before_first_start", "movement_happens"}
           /\ mode = "break_time" => segments' = segments
           /\ segments' # segments =>
                  /\ mode' = "break_time"
                  /\ distance_list' = <<>>
           /\ mode' # mode /\ mode' = "movement_happens" =>
                  /\ distance_list' = <<>>
                  /\ i_segment_first_tp' \in
                         {distance_list[k].i : k \in 1..Len(distance_list)}
                         \cup {i_tp}]_vars

\* A pass has just closed a segment at a break point that is not the point
\* of the pass: the test for a restart has been made on a point away from
\* the break, over the emptied buffer.
C29_Witness ==
    /\ pc = "detect"
    /\ mode = "break_time"
    /\ distance_list = <<>>
    /\ Len(segments) >= 1
    /\ i_tp >= 1
    /\ distance(At(trackpoints, i_tp - 1), break_tp) > 1

----------------------------------------------------------------------------
(* Track._compress_section step by step: the passes of its narrowing loop  *)
(* and its two recursive calls, with the activations kept in frames.        *)

MaxSectionPoints == 6

\* The tolerances tried: none, and 50 m.
SectionTolerances == {0, 50 * CtScale}

\* An activation of _compress_section(i_p1, i_p2, c_t, c_l) at its first
\* line: "i_pg1 = i_p1", "i_pg2 = i_p2".
NewFrame(i_p1, i_p2) ==
    [i_p1 |-> i_p1, i_p2 |-> i_p2, i_pg1 |-> i_p1, i_pg2 |-> i_p2,
     i_pi |-> 0, d_n |-> 0, at |-> "narrowing"]

\* dist(p1, p_k) + dist(p_k, p2) for the section of an activation.
via(tps, f, k) ==
    distance(At(tps, f.i_p1), At(tps, k)) + distance(At(tps, k), At(tps, f.i_p2))

\* The end of a pass: the borders are moved, and i_pi and d_n are what the
\* lines after the loop would choose from this pass.
narrowed(f, n_pg1, n_pg2, i_pi, d_n) ==
    [f EXCEPT !.i_pg1 = n_pg1, !.i_pg2 = n_pg2, !.i_pi = i_pi, !.d_n = d_n,
              !.at = IF Abs(n_pg1 - n_pg2) <= 1 THEN "chosen"
                     ELSE "narrowing"]

\* "a_is_better_guess = d1a2 > d1b2" and the cut of the last or the first
\* third.
narrow_compare(f, i_pga, i_pgb, d1a2, d1b2) ==
    IF d1a2 > d1b2
    THEN narrowed(f, f.i_pg1, i_pgb, i_pga, d1a2)
    ELSE narrowed(f, i_pga, f.i_pg2, i_pgb, d1b2)

\* The two guesses i_pga and i_pgb, a third from either border.
narrow_thirds(tps, f, i_third) ==
    narrow_compare(f, f.i_pg1 + i_third, f.i_pg2 - i_third,
                   via(tps, f, f.i_pg1 + i_third),
                   via(tps, f, f.i_pg2 - i_third))

narrow_pass_floor(tps, f) ==
    narrow_thirds(tps, f, (f.i_pg2 - f.i_pg1) \div 3)

\* One pass of "while not borders_have_converged":
\* "i_third = int((i_diff + 1) / 3)".
narrow_pass(tps, f) ==
    narrow_thirds(tps, f, (f.i_pg2 - f.i_pg1 + 1) \div 3)

\* "significant_improvement = (d_n - d_s) > c_t"
significant_improvement(tps, f, c_t) ==
    (f.d_n - distance(At(tps, f.i_p1), At(tps, f.i_p2))) * CtScale > c_t

\* A section i_from..i_to of a trace that runs out and back along a
\* meridian, a tolerance, and an empty compression list.
InitSection ==
    /\ InitCall(TracesUpTo(MaxSectionPoints, ZigMoves),
                [i_from : 0..1, i_to : 0..(MaxSectionPoints + 1),
                 c_t : SectionTolerances, returned : {<<>>}])
    /\ call.i_to = Len(trackpoints) - 1
    /\ call.i_from <= call.i_to

Top == frames[Len(frames)]

\* What a step of _compress_section leaves alone.
section_frame ==
    <<trackpoints, activity_id, segments, next_id, userbug, seg_dict, i_tp,
      mode, distance_list, dist_from_start, i_segment_first_tp, break_tp,
      net_dist, net_duration_s, compressed, zipped, activities,
      time_metadata, forced_breaks, infile>>

\* self._compress_section(i_p1, i_p2, c_t, c_l) is called.
EnterSection ==
    /\ pc = "call"
    /\ frames' = <<NewFrame(call.i_from, call.i_to)>>
    /\ pc' = "section"
    /\ UNCHANGED <<call, section_frame>>

\* One pass of the narrowing loop of the innermost activation.
NarrowPass ==
    /\ pc = "section"
    /\ Top.at = "narrowing"
    /\ frames' = [frames EXCEPT ![Len(frames)] = narrow_pass(trackpoints, Top)]
    /\ UNCHANGED <<pc, call, section_frame>>

\* "if significant_improvement: c_l.append(i_pi)" and the call for the
\* section before the chosen point.
RecurseBefore ==
    /\ pc = "section"
    /\ Top.at = "chosen"
    /\ significant_improvement(trackpoints, Top, call.c_t)
    /\ call' = [call EXCEPT !.returned = Append(call.returned, Top.i_pi)]
    /\ frames' = Append([frames EXCEPT ![Len(frames)].at = "before"],
                        NewFrame(Top.i_p1, Top.i_pi))
    /\ UNCHANGED <<pc, section_frame>>

\* The call for the section after the chosen point.
RecurseAfter ==
    /\ pc = "section"
    /\ Top.at = "before"
    /\ frames' = Append([frames EXCEPT ![Len(frames)].at = "after"],
                        NewFrame(Top.i_pi, Top.i_p2))
    /\ UNCHANGED <<pc, call, section_frame>>

\* The innermost activation returns: without improvement, or after its
\* second call.
ReturnSection ==
    /\ pc = "section"
    /\ \/ Top.at = "after"
       \/ /\ Top.at = "chosen"
          /\ ~significant_improvement(trackpoints, Top, call.c_t)
    /\ frames' = SubSeq(frames, 1, Len(frames) - 1)
    /\ pc' = IF Len(frames) = 1 THEN "returned" ELSE "section"
    /\ UNCHANGED <<call, section_frame>>

NextSection ==
    \/ EnterSection
    \/ NarrowPass
    \/ RecurseBefore
    \/ RecurseAfter
    \/ ReturnSection

SpecSection == InitSection /\ [][NextSection]_vars

\* The interpreter always takes the next step of a running call.
FairSection == SpecSection /\ WF_vars(NextSection)

\* The call leaves in c_l what the recursion written as one function
\* leaves.
SectionAgrees ==
    pc = "returned" =>
        call.returned = compress_section(trackpoints, call.i_from, call.i_to,
                                         call.c_t, <<>>)

\* The index range of an activation, and the range its loop has narrowed
\* to.
Steps_(f) == f.i_p2 - f.i_p1

Borders(f) == f.i_pg2 - f.i_pg1

\* C28: _compress_section terminates for every range i_p1 <= i_p2 and every
\* tolerance c_t >= 0: every pass of the narrowing loop that does not end
\* it leaves a strictly smaller range between the borders, every recursive
\* call is made on a strictly smaller index range, a range of 0 or 1 step
\* makes no recursive call, and every call returns.
C28_Terminates ==
    /\ [][/\ NarrowPass /\ Top'.at = "narrowing" =>
               /\ 0 <= Borders(Top')
               /\ Borders(Top') < Borders(Top)
          /\ Len(frames') > Len(frames) /\ frames # <<>> =>
               /\ 0 <= Steps_(Top')
               /\ Steps_(Top') < Steps_(Top)
               /\ Steps_(Top) >= 2]_vars
    /\ <>(pc = "returned")

\* A call on a range of at least four steps has returned after it kept two
\* points or more, at the tolerance of 50 m.
C28_Witness ==
    /\ pc = "returned"
    /\ frames = <<>>
    /\ call.i_to - call.i_from >= 4
    /\ call.c_t > 0
    /\ Len(call.returned) >= 2

----------------------------------------------------------------------------
(* The two Tracks of Track.__init__, "self.compressed =                    *)
(* self._compress_track()" and "self.zipped = self._compress_track(0.05)", *)
(* compared segment by segment.                                            *)

\* The indices in Track.trackpoints of the points segment k of track c
\* holds.
Kept(c, k) ==
    {IndexOf(At(c.trackpoints, j)) :
         j \in c.segments[k].i_first_tp..c.segments[k].i_last_tp}

\* C30: for every segment, the points the zipped Track keeps are among the
\* points the compressed Track keeps, and the zipped Track has no more
\* points than the compressed one.
C30_ZippedWithinCompressed ==
    Finished =>
        /\ Len(zipped.segments) = Len(compressed.segments)
        /\ \A k \in 1..Len(zipped.segments) :
               Kept(zipped, k) \subseteq Kept(compressed, k)
        /\ Len(zipped.trackpoints) <= Len(compressed.trackpoints)

\* A finished Track with a segment of which the zipped Track keeps an
\* interior point and drops another that the compressed Track keeps.
C30_Witness ==
    /\ Finished
    /\ \E k \in 1..Len(segments) :
           /\ Cardinality(Kept(zipped, k)) >= 3
           /\ Kept(zipped, k) # Kept(compressed, k)
           /\ Kept(zipped, k) \subseteq Kept(compressed, k)

====
